---------------------------- MODULE Spec2Model ----------------------------
(***************************************************************************)
(* Model of shelly's multi-repository status / sync / pull commands, its  *)
(* repository health check and the presentation of the status results     *)
(* (src/shelly/commands/status.py and src/shelly/commands/git.py).         *)
(*                                                                         *)
(* Text that the code parses (git's stdout) is a sequence of one-character *)
(* strings, so that strip(), split() and slicing are computed as Python    *)
(* computes them.  Messages that the code only builds and prints are TLA+  *)
(* strings.  What git and the file system answer for one repository is     *)
(* carried in the repository record (fields fs and git): the mocked        *)
(* responses of the subprocess calls made in that directory.               *)
(***************************************************************************)
EXTENDS Integers, Sequences, FiniteSets, Bags, TLC

VARIABLES
    \* ---- one call of a per-repository function
    upc,          \* "input" before the call, "done" after it, "shown" with
                  \* icon, "again" after a second probe
    uop,          \* the function called: "probe" | "sync" | "pull" | "health"
    uflag,        \* its boolean argument (fetch for probe, force for pull)
    urepo,        \* the repository record it is called with
    ures,         \* what the call produced (see Returned / Raised)
    uicon,        \* the icon get_status_icon gave for a probe's result
    ures2,        \* a second probe of the same repository: the answer its
                  \* fetch got and what the call produced (or "none")
    \* ---- one run of a bulk command
    pc,           \* position of the main thread
    command,      \* "status" | "sync" | "pull"
    opts,         \* the command's options
    cache,        \* cache['repositories'] as loaded
    repositories, \* the list after the category filter
    fut,          \* state of each submitted future
    futres,       \* result (or exception) held by each finished future
    workq,        \* the executor's FIFO work queue (indices)
    completed,    \* finished futures not yet yielded by as_completed
    repo_statuses,\* status.py: the collected probe results
    results,      \* git.py pull: the collected pull results
    printed,      \* console output, in order
    processed,    \* names of the repositories whose unit of work was run
    presented,    \* what display_status_summary was given (<<>>: not called)
    \* ---- one session of the configuration store
    family,       \* the calls the session makes: "config" | "repositories"
                  \* | "recent"
    config,       \* ConfigManager.config
    mgr_cache,    \* ConfigManager.cache
    config_file,  \* ~/.shelly/config.json
    cache_file,   \* ~/.shelly/cache.json
    clock,        \* what datetime.now() answers next
    call_log      \* the calls made so far, oldest first

unitVars == <<upc, uop, uflag, urepo, ures, uicon, ures2>>
bulkVars == <<pc, command, opts, cache, repositories, fut, futres, workq,
              completed, repo_statuses, results, printed, processed,
              presented>>
storeVars == <<family, config, mgr_cache, config_file, cache_file, clock,
               call_log>>
vars == <<unitVars, bulkVars, storeVars>>

\* no ConfigManager in use
StoreIdle ==
    /\ family = "none" /\ config = <<>> /\ mgr_cache = <<>>
    /\ config_file = <<>> /\ cache_file = <<>> /\ clock = 0 /\ call_log = <<>>

---------------------------------------------------------------------------
(* Bounds of the model *)

MaxRepos == 3      \* longest repository list of a bulk run
MaxLines == 2      \* longest free-form porcelain listing
MaxM == 3          \* most ' M' entries of a modified-then-untracked listing
MaxU == 2          \* most '??' entries of a modified-then-untracked listing

---------------------------------------------------------------------------
(* Python text primitives, on sequences of characters *)

NL == "\n"
TAB == "\t"
Whitespace == {" ", NL, TAB}

RECURSIVE LStrip(_)
LStrip(s) ==
    IF s # <<>> /\ Head(s) \in Whitespace THEN LStrip(Tail(s)) ELSE s

RECURSIVE RStrip(_)
RStrip(s) ==
    IF s # <<>> /\ s[Len(s)] \in Whitespace
    THEN RStrip(SubSeq(s, 1, Len(s) - 1))
    ELSE s

\* str.strip(): leading and trailing whitespace of the WHOLE text removed
Strip(s) == RStrip(LStrip(s))

\* str.split(sep) with an explicit separator: at least one field
RECURSIVE Split(_, _)
Split(s, sep) ==
    IF \E i \in 1..Len(s) : s[i] = sep
    THEN LET i == CHOOSE k \in 1..Len(s) :
                     s[k] = sep /\ \A j \in 1..(k - 1) : s[j] # sep
         IN  <<SubSeq(s, 1, i - 1)>> \o Split(SubSeq(s, i + 1, Len(s)), sep)
    ELSE <<s>>

\* s[:2] and s[3:]
Prefix2(s) == SubSeq(s, 1, IF Len(s) < 2 THEN Len(s) ELSE 2)
From3(s) == SubSeq(s, 4, Len(s))

DigitChars == <<"0", "1", "2", "3", "4", "5", "6", "7", "8", "9">>
IsDigit(c) == \E n \in 1..Len(DigitChars) : DigitChars[n] = c
DigitVal(c) == (CHOOSE n \in 1..Len(DigitChars) : DigitChars[n] = c) - 1

RECURSIVE DigitsVal(_)
DigitsVal(s) ==
    IF s = <<>> THEN 0
    ELSE DigitsVal(SubSeq(s, 1, Len(s) - 1)) * 10 + DigitVal(s[Len(s)])

\* int(text): surrounding whitespace and one sign allowed; ok = FALSE stands
\* for ValueError
ParseInt(s) ==
    LET t == Strip(s)
        signed == t # <<>> /\ t[1] \in {"+", "-"}
        body == IF signed THEN Tail(t) ELSE t
    IN  IF body # <<>> /\ \A i \in 1..Len(body) : IsDigit(body[i])
        THEN [ok |-> TRUE,
              val |-> IF signed /\ t[1] = "-" THEN 0 - DigitsVal(body)
                      ELSE DigitsVal(body)]
        ELSE [ok |-> FALSE, val |-> 0]

RECURSIVE Concat(_)
Concat(ss) == IF ss = <<>> THEN <<>> ELSE Head(ss) \o Concat(Tail(ss))

---------------------------------------------------------------------------
(* What a subprocess.run call can do *)

Exit(rc, out, err) ==
    [kind |-> "exit", rc |-> rc, stdout |-> out, stderr |-> err, exc |-> ""]
TimedOut ==
    [kind |-> "timeout", rc |-> 0, stdout |-> <<>>, stderr |-> "", exc |-> ""]
Raises(e) ==
    [kind |-> "raise", rc |-> 0, stdout |-> <<>>, stderr |-> "", exc |-> e]
Unused ==
    [kind |-> "unused", rc |-> 0, stdout |-> <<>>, stderr |-> "", exc |-> ""]

\* What a per-repository function call can do
Returned(v, calls) == [raised |-> FALSE, exc |-> "", value |-> v, calls |-> calls]
Raised(e, calls) == [raised |-> TRUE, exc |-> e, value |-> <<>>, calls |-> calls]

\* Python's None where a string is expected, and where text is expected
None == "None"
NoBranch == <<"None">>

\* dict.get(key, default) on a result dictionary
Get(d, key, default) == IF key \in DOMAIN d THEN d[key] ELSE default

---------------------------------------------------------------------------
(* status.py: get_repository_status *)

ErrorShape(repo, msg) ==
    [name |-> repo.name, category |-> repo.category, path |-> repo.path,
     error |-> msg, has_changes |-> FALSE]

InitialStatusInfo(repo) ==
    [name |-> repo.name, category |-> repo.category, path |-> repo.path,
     has_changes |-> FALSE, branch |-> NoBranch, ahead |-> 0, behind |-> 0,
     staged |-> <<>>, modified |-> <<>>, untracked |-> <<>>,
     conflicts |-> <<>>, stashes |-> 0, error |-> None]

\* The probe in progress: the status_info built so far, the exception that
\* reached the outer handler ("" while none), the subprocess calls issued.
ProbeStart(repo) == [si |-> InitialStatusInfo(repo), exc |-> "", calls |-> <<>>]

\* the fetch's failure taken for the probe's: a timeout or a non-zero exit
\* reaches the outer handler
ProbeFetch_FailureFatal(st, repo, fetch) ==
    IF ~fetch THEN st
    ELSE LET r == repo.git.fetch
             issued == [st EXCEPT !.calls = Append(@, "fetch")]
         IN  IF r.kind = "raise" THEN [issued EXCEPT !.exc = r.exc]
             ELSE IF r.kind = "timeout" THEN [issued EXCEPT !.exc = "timed out"]
             ELSE IF r.rc # 0 THEN [issued EXCEPT !.exc = r.stderr]
             ELSE issued

\* the fetch's timeout left to the outer handler
ProbeFetch_TimeoutFatal(st, repo, fetch) ==
    IF ~fetch THEN st
    ELSE LET r == repo.git.fetch
             issued == [st EXCEPT !.calls = Append(@, "fetch")]
         IN  IF r.kind = "raise" THEN [issued EXCEPT !.exc = r.exc]
             ELSE IF r.kind = "timeout" THEN [issued EXCEPT !.exc = "timed out"]
             ELSE issued

\* lines 116-124: a timeout is swallowed, the exit code is not looked at
ProbeFetch(st, repo, fetch) ==
    IF ~fetch THEN st
    ELSE LET r == repo.git.fetch
             issued == [st EXCEPT !.calls = Append(@, "fetch")]
         IN  IF r.kind = "raise" THEN [issued EXCEPT !.exc = r.exc] ELSE issued

\* lines 126-130
ProbeBranch(st, repo) ==
    IF st.exc # "" THEN st
    ELSE LET r == repo.git.branch
             issued == [st EXCEPT !.calls = Append(@, "rev-parse")]
         IN  IF r.kind = "raise" THEN [issued EXCEPT !.exc = r.exc]
             ELSE IF r.rc = 0
                  THEN [issued EXCEPT !.si.branch = Strip(r.stdout)]
                  ELSE issued

\* lines 140-145: the tuple unpacking and the two int() calls run in order;
\* a ValueError at any of them leaves what was already assigned
AheadBehind(si, out) ==
    LET fields == Split(Strip(out), TAB)
    IN  IF Len(fields) # 2 THEN si
        ELSE LET a == ParseInt(fields[1])
                 b == ParseInt(fields[2])
             IN  IF ~a.ok THEN si
                 ELSE IF ~b.ok THEN [si EXCEPT !.ahead = a.val]
                 ELSE [si EXCEPT !.ahead = a.val, !.behind = b.val]

\* lines 132-145
ProbeAheadBehind(st, repo) ==
    IF st.exc # "" THEN st
    ELSE IF st.si.branch \in {NoBranch, <<>>, <<"H", "E", "A", "D">>} THEN st
    ELSE LET r == repo.git.revlist
             issued == [st EXCEPT !.calls = Append(@, "rev-list")]
         IN  IF r.kind = "raise" THEN [issued EXCEPT !.exc = r.exc]
             ELSE IF r.rc = 0
                  THEN [issued EXCEPT !.si = AheadBehind(@, r.stdout)]
                  ELSE issued

\* lines 160-167: the list one status line is appended to: "none" when no
\* branch of the if/elif chain matches, "IndexError" when status_code[1]
\* does not exist
Bucket(status_code) ==
    IF status_code[1] = "U" \/ status_code[Len(status_code)] = "U"
       \/ status_code = <<"D", "D">>
    THEN "conflicts"
    ELSE IF status_code[1] \in {"M", "A", "D", "R", "C"} THEN "staged"
    ELSE IF Len(status_code) < 2 THEN "IndexError"
    ELSE IF status_code[2] \in {"M", "D"} THEN "modified"
    ELSE IF status_code[1] = "?" /\ status_code[2] = "?" THEN "untracked"
    ELSE "none"

\* lines 153-167: the loop over the lines
RECURSIVE ParseLines(_, _)
ParseLines(lines, st) ==
    IF lines = <<>> \/ st.exc # "" THEN st
    ELSE LET line == Head(lines)
             b == Bucket(Prefix2(line))
             filename == From3(line)
         IN  IF line = <<>> THEN ParseLines(Tail(lines), st)
             ELSE IF b = "IndexError"
                  THEN [st EXCEPT !.exc = "string index out of range"]
             ELSE IF b = "none" THEN ParseLines(Tail(lines), st)
             ELSE ParseLines(Tail(lines),
                             [st EXCEPT !.si[b] = Append(@, filename)])

\* lines 147-167
ProbeStatus(st, repo) ==
    IF st.exc # "" THEN st
    ELSE LET r == repo.git.status
             issued == [st EXCEPT !.calls = Append(@, "status")]
         IN  IF r.kind = "raise" THEN [issued EXCEPT !.exc = r.exc]
             ELSE IF r.rc = 0
                  THEN ParseLines(Split(Strip(r.stdout), NL), issued)
                  ELSE issued

\* lines 169-173
ProbeStash(st, repo) ==
    IF st.exc # "" THEN st
    ELSE LET r == repo.git.stash
             issued == [st EXCEPT !.calls = Append(@, "stash")]
             lines == Split(Strip(r.stdout), NL)
         IN  IF r.kind = "raise" THEN [issued EXCEPT !.exc = r.exc]
             ELSE IF r.rc = 0
                  THEN [issued EXCEPT !.si.stashes =
                            Cardinality({i \in 1..Len(lines) : lines[i] # <<>>})]
                  ELSE issued

\* the derivation with the behind count forgotten
HasChanges_IgnoresBehind(si) ==
    \/ si.staged # <<>>
    \/ si.modified # <<>>
    \/ si.untracked # <<>>
    \/ si.conflicts # <<>>
    \/ si.ahead > 0

\* lines 175-183
HasChanges(si) ==
    \/ si.staged # <<>>
    \/ si.modified # <<>>
    \/ si.untracked # <<>>
    \/ si.conflicts # <<>>
    \/ si.ahead > 0
    \/ si.behind > 0

\* the handler marking the dictionary built so far instead of resetting it
ProbeFailed_KeepsPartial(st, repo) == [st.si EXCEPT !.error = st.exc]

\* lines 187-194: the outer handler builds a fresh dictionary
ProbeFailed(st, repo) == ErrorShape(repo, st.exc)

\* the fetch attempted before the path is looked at
get_repository_status_FetchFirst(repo, fetch) ==
    LET issued == IF fetch THEN <<"fetch">> ELSE <<>>
    IN  IF repo.fs = "denied" THEN Raised("PermissionError", <<>>)
        ELSE IF repo.fs = "missing"
             THEN Returned(ErrorShape(repo, "Repository path not found"), issued)
        ELSE IF repo.fs = "nogit"
             THEN Returned(ErrorShape(repo, "Not a git repository"), issued)
        ELSE LET s1 == ProbeFetch(ProbeStart(repo), repo, fetch)
                 s2 == ProbeBranch(s1, repo)
                 s3 == ProbeAheadBehind(s2, repo)
                 s4 == ProbeStatus(s3, repo)
                 s5 == ProbeStash(s4, repo)
             IN  IF s5.exc # ""
                 THEN Returned(ProbeFailed(s5, repo), s5.calls)
                 ELSE Returned([s5.si EXCEPT !.has_changes = HasChanges(s5.si)],
                               s5.calls)

\* lines 74-194.  Path.exists() raises for a path it may not stat
\* (PermissionError), and lines 76-94 are outside the try.
get_repository_status(repo, fetch) ==
    IF repo.fs = "denied" THEN Raised("PermissionError", <<>>)
    ELSE IF repo.fs = "missing"
         THEN Returned(ErrorShape(repo, "Repository path not found"), <<>>)
    ELSE IF repo.fs = "nogit"
         THEN Returned(ErrorShape(repo, "Not a git repository"), <<>>)
    ELSE LET s1 == ProbeFetch(ProbeStart(repo), repo, fetch)
             s2 == ProbeBranch(s1, repo)
             s3 == ProbeAheadBehind(s2, repo)
             s4 == ProbeStatus(s3, repo)
             s5 == ProbeStash(s4, repo)
         IN  IF s5.exc # ""
             THEN Returned(ProbeFailed(s5, repo), s5.calls)
             ELSE Returned([s5.si EXCEPT !.has_changes = HasChanges(s5.si)],
                           s5.calls)

---------------------------------------------------------------------------
(* status.py: display_status_summary and get_status_icon *)

\* a console line
Event(level, name, message) == [level |-> level, name |-> name, message |-> message]

\* the truth value Python gives a text or None
Truthy(text) == text \notin {None, ""}

\* the rule for divergence tried before the one for conflicts
get_status_icon_SyncFirst(repo_status) ==
    IF Truthy(Get(repo_status, "error", None)) THEN "error"
    ELSE IF "ahead" \notin DOMAIN repo_status THEN "KeyError"
    ELSE IF repo_status.ahead > 0 THEN "sync"
    ELSE IF "behind" \notin DOMAIN repo_status THEN "KeyError"
    ELSE IF repo_status.behind > 0 THEN "sync"
    ELSE IF Get(repo_status, "conflicts", <<>>) # <<>> THEN "conflicts"
    ELSE IF \/ Get(repo_status, "staged", <<>>) # <<>>
            \/ Get(repo_status, "modified", <<>>) # <<>> THEN "changes"
    ELSE IF Get(repo_status, "untracked", <<>>) # <<>> THEN "untracked"
    ELSE "clean"

\* lines 284-297; the icons by name: error, conflicts (fire), sync (arrows),
\* changes (memo), untracked (question mark), clean (check mark).  Reading
\* ['ahead'] or ['behind'] of a dictionary without the key is a KeyError.
get_status_icon(repo_status) ==
    IF Truthy(Get(repo_status, "error", None)) THEN "error"
    ELSE IF Get(repo_status, "conflicts", <<>>) # <<>> THEN "conflicts"
    ELSE IF "ahead" \notin DOMAIN repo_status THEN "KeyError"
    ELSE IF repo_status.ahead > 0 THEN "sync"
    ELSE IF "behind" \notin DOMAIN repo_status THEN "KeyError"
    ELSE IF repo_status.behind > 0 THEN "sync"
    ELSE IF \/ Get(repo_status, "staged", <<>>) # <<>>
            \/ Get(repo_status, "modified", <<>>) # <<>> THEN "changes"
    ELSE IF Get(repo_status, "untracked", <<>>) # <<>> THEN "untracked"
    ELSE "clean"

\* lines 234-244: the Status column of the detailed table
StatusColumn(repo) ==
    IF Truthy(Get(repo, "error", None)) THEN <<"error: " \o repo.error>>
    ELSE IF "ahead" \notin DOMAIN repo \/ "behind" \notin DOMAIN repo
         THEN <<"KeyError">>
    ELSE LET up == IF repo.ahead > 0
                   THEN <<"ahead " \o ToString(repo.ahead)>> ELSE <<>>
             down == IF repo.behind > 0
                     THEN <<"behind " \o ToString(repo.behind)>> ELSE <<>>
         IN  IF up \o down = <<>> THEN <<"ok">> ELSE up \o down

\* lines 246-257: the Changes column of the detailed table
ChangesColumn(repo) ==
    LET part(key) == IF Get(repo, key, <<>>) # <<>>
                     THEN <<key \o " " \o ToString(Len(repo[key]))>> ELSE <<>>
        stashes == IF Get(repo, "stashes", 0) > 0
                   THEN <<"stashes " \o ToString(repo.stashes)>> ELSE <<>>
        parts == part("conflicts") \o part("staged") \o part("modified")
                     \o part("untracked") \o stashes
    IN  IF parts = <<>> THEN <<"clean">> ELSE parts

\* lines 229-280: the line of one repository
Row(repo, detailed) ==
    Event("row", repo.name,
          IF detailed
          THEN [branch |-> Get(repo, "branch", "unknown"),
                status |-> StatusColumn(repo), changes |-> ChangesColumn(repo)]
          ELSE [branch |-> Get(repo, "branch", "unknown"),
                icon |-> get_status_icon(repo)])

\* the category names of the model, as sorted() orders them
CategoryNames == <<"misc", "work">>

\* str.upper on the category names
Upper(category) ==
    CASE category = "misc" -> "MISC"
      [] category = "work" -> "WORK"

\* lines 205-211: the results of one category, in the order of the list
Group(statuses, category) ==
    SelectSeq(statuses, LAMBDA st : st.category = category)

\* lines 197-281: the console lines of display_status_summary
display_status_summary(statuses, detailed) ==
    LET total == Len(statuses)
        dirty == Len(SelectSeq(statuses, LAMBDA st : st.has_changes))
        header == Event("summary", 0,
                        [total |-> total, clean |-> total - dirty, dirty |-> dirty])
        Section(category) ==
            LET repos == Group(statuses, category)
            IN  IF repos = <<>> THEN <<>>
                ELSE <<Event("category", 0, Upper(category))>>
                     \o [i \in DOMAIN repos |-> Row(repos[i], detailed)]
    IN  <<header>>
        \o Concat([k \in DOMAIN CategoryNames |-> Section(CategoryNames[k])])

---------------------------------------------------------------------------
(* git.py: sync_repository *)

Outcome(repo, ok, msg) == [name |-> repo.name, success |-> ok, message |-> msg]

\* lines 230-233: the two handlers of the try
SyncExcept(repo, r, calls) ==
    IF r.kind = "timeout"
    THEN Returned(Outcome(repo, FALSE, "Operation timed out"), calls)
    ELSE Returned(Outcome(repo, FALSE, r.exc), calls)

\* the pull attempted whatever the state of the working tree
SyncPull_Always(repo, is_clean, calls) ==
    LET p == repo.git.pull
        issued == Append(calls, "pull")
    IN  IF p.kind # "exit" THEN SyncExcept(repo, p, issued)
        ELSE IF p.rc # 0
             THEN Returned(Outcome(repo, FALSE, "Pull failed: " \o p.stderr),
                           issued)
             ELSE Returned(Outcome(repo, TRUE,
                                   "Fetched and pulled successfully"), issued)

\* lines 215-228: after the status query returned exit code 0
SyncPull(repo, is_clean, calls) ==
    IF is_clean
    THEN LET p == repo.git.pull
             issued == Append(calls, "pull")
         IN  IF p.kind # "exit" THEN SyncExcept(repo, p, issued)
             ELSE IF p.rc # 0
                  THEN Returned(Outcome(repo, FALSE, "Pull failed: " \o p.stderr),
                                issued)
                  ELSE Returned(Outcome(repo, TRUE,
                                        "Fetched and pulled successfully"), issued)
    ELSE Returned(Outcome(repo, TRUE,
                          "Fetched (working directory has changes)"), calls)

\* lines 204-213: after the fetch returned exit code 0
SyncStatus(repo, calls) ==
    LET s == repo.git.status
        issued == Append(calls, "status")
    IN  IF s.kind # "exit" THEN SyncExcept(repo, s, issued)
        ELSE IF s.rc # 0
             THEN Returned(Outcome(repo, FALSE, "Could not check status"), issued)
             ELSE SyncPull(repo, Strip(s.stdout) = <<>>, issued)

\* the fetch's exit code not looked at
SyncFetch_IgnoresExitCode(repo) ==
    LET f == repo.git.fetch
        issued == <<"fetch">>
    IN  IF f.kind # "exit" THEN SyncExcept(repo, f, issued)
        ELSE SyncStatus(repo, issued)

\* lines 193-202
SyncFetch(repo) ==
    LET f == repo.git.fetch
        issued == <<"fetch">>
    IN  IF f.kind # "exit" THEN SyncExcept(repo, f, issued)
        ELSE IF f.rc # 0
             THEN Returned(Outcome(repo, FALSE, "Fetch failed: " \o f.stderr),
                           issued)
             ELSE SyncStatus(repo, issued)

\* lines 182-233; lines 184-191 are outside the try
sync_repository(repo) ==
    IF repo.fs = "denied" THEN Raised("PermissionError", <<>>)
    ELSE IF repo.fs = "missing"
         THEN Returned(Outcome(repo, FALSE, "Repository path not found"), <<>>)
    ELSE IF repo.fs = "nogit"
         THEN Returned(Outcome(repo, FALSE, "Not a git repository"), <<>>)
    ELSE SyncFetch(repo)

---------------------------------------------------------------------------
(* git.py: pull_repository *)

\* the timeout given no handler of its own: it falls to the general one
PullExcept_NoTimeoutHandler(repo, r, calls) ==
    Returned(Outcome(repo, FALSE, r.exc), calls)

\* lines 273-276: the two handlers of the try
PullExcept(repo, r, calls) ==
    IF r.kind = "timeout"
    THEN Returned(Outcome(repo, FALSE, "Pull timed out"), calls)
    ELSE Returned(Outcome(repo, FALSE, r.exc), calls)

\* lines 261-271
PullPull(repo, calls) ==
    LET p == repo.git.pull
        issued == Append(calls, "pull")
    IN  IF p.kind # "exit" THEN PullExcept(repo, p, issued)
        ELSE IF p.rc # 0
             THEN Returned(Outcome(repo, FALSE, "Pull failed: " \o p.stderr),
                           issued)
             ELSE Returned(Outcome(repo, TRUE, "Pulled successfully"), issued)

\* the cleanliness check running whatever force says
PullCheck_AlwaysChecks(repo, force) ==
    LET s == repo.git.status
        issued == <<"status">>
    IN  IF s.kind # "exit" THEN PullExcept(repo, s, issued)
        ELSE IF s.rc # 0
             THEN Returned(Outcome(repo, FALSE, "Could not check status"), issued)
        ELSE IF Strip(s.stdout) # <<>>
             THEN Returned(Outcome(repo, FALSE,
                      "Working directory has changes (use --force to override)"),
                      issued)
        ELSE PullPull(repo, issued)

\* the result of the cleanliness check not acted on
PullCheck_IgnoresChanges(repo, force) ==
    IF force THEN PullPull(repo, <<>>)
    ELSE LET s == repo.git.status
             issued == <<"status">>
         IN  IF s.kind # "exit" THEN PullExcept(repo, s, issued)
             ELSE IF s.rc # 0
                  THEN Returned(Outcome(repo, FALSE, "Could not check status"),
                                issued)
             ELSE PullPull(repo, issued)

\* lines 247-259
PullCheck(repo, force) ==
    IF force THEN PullPull(repo, <<>>)
    ELSE LET s == repo.git.status
             issued == <<"status">>
         IN  IF s.kind # "exit" THEN PullExcept(repo, s, issued)
             ELSE IF s.rc # 0
                  THEN Returned(Outcome(repo, FALSE, "Could not check status"),
                                issued)
             ELSE IF Strip(s.stdout) # <<>>
                  THEN Returned(Outcome(repo, FALSE,
                           "Working directory has changes (use --force to override)"),
                           issued)
             ELSE PullPull(repo, issued)

\* lines 236-276; lines 238-245 are outside the try
pull_repository(repo, force) ==
    IF repo.fs = "denied" THEN Raised("PermissionError", <<>>)
    ELSE IF repo.fs = "missing"
         THEN Returned(Outcome(repo, FALSE, "Repository path not found"), <<>>)
    ELSE IF repo.fs = "nogit"
         THEN Returned(Outcome(repo, FALSE, "Not a git repository"), <<>>)
    ELSE PullCheck(repo, force)

---------------------------------------------------------------------------
(* check_repository_health (git.py 279-361) *)

\* line 345: more untracked lines than this is an issue
UntrackedLimit == 50

\* str.startswith
StartsWith(line, prefix) ==
    /\ Len(line) >= Len(prefix)
    /\ SubSeq(line, 1, Len(prefix)) = prefix

\* every issue offered for fixing
Issue_AlwaysFixable(repo, type, message, fixable) ==
    [repo |-> repo.name, type |-> type, message |-> message, fixable |-> TRUE]

\* an entry of the list of issues
Issue(repo, type, message, fixable) ==
    [repo |-> repo.name, type |-> type, message |-> message, fixable |-> fixable]

\* lines 287-293 and 298-304: an issue the check command can offer to fix
FixableIssue(repo, type, message) ==
    [repo |-> repo.name, type |-> type, message |-> message, fixable |-> TRUE,
     fix_action |-> "remove_from_cache"]

\* the handler dropping what the checks had found before the exception
HealthExcept_ErrorAlone(repo, issues, r, calls) ==
    Returned(<<Issue(repo, "check_error",
                     "Error during health check: " \o r.exc, FALSE)>>, calls)

\* lines 353-361: the handler adds its issue to those found so far
HealthExcept(repo, issues, r, calls) ==
    Returned(Append(issues, Issue(repo, "check_error",
                        "Error during health check: " \o r.exc, FALSE)),
             calls)

\* the comparison taking the limit itself as too many
ManyUntracked_AtLimit(n) == n >= UntrackedLimit

\* line 345
ManyUntracked(n) == n > UntrackedLimit

\* line 344: the lines of the listing that start with '??'
UntrackedLines(out) ==
    SelectSeq(Split(out, NL), LAMBDA line : StartsWith(line, <<"?", "?">>))

\* lines 337-351
HealthUntracked(repo, issues, calls) ==
    LET s == repo.git.status
        issued == Append(calls, "status")
        n == Len(UntrackedLines(s.stdout))
    IN  IF s.kind # "exit" THEN HealthExcept(repo, issues, s, issued)
        ELSE IF s.rc = 0 /\ ManyUntracked(n)
             THEN Returned(Append(issues, Issue(repo, "many_untracked",
                      "Large number of untracked files (" \o ToString(n) \o ")",
                      FALSE)), issued)
        ELSE Returned(issues, issued)

\* lines 323-335
HealthHead(repo, issues, calls) ==
    LET b == repo.git.branch
        issued == Append(calls, "rev-parse")
    IN  IF b.kind # "exit" THEN HealthExcept(repo, issues, b, issued)
        ELSE IF b.rc = 0 /\ Strip(b.stdout) = <<"H", "E", "A", "D">>
             THEN HealthUntracked(repo,
                      Append(issues, Issue(repo, "detached_head",
                          "Repository is in detached HEAD state", FALSE)),
                      issued)
        ELSE HealthUntracked(repo, issues, issued)

\* lines 307-321
HealthRemotes(repo) ==
    LET r == repo.git.remote
        issued == <<"remote">>
    IN  IF r.kind # "exit" THEN HealthExcept(repo, <<>>, r, issued)
        ELSE IF r.rc = 0 /\ Strip(r.stdout) = <<>>
             THEN HealthHead(repo, <<Issue(repo, "no_remotes",
                      "No remote repositories configured", FALSE)>>, issued)
        ELSE HealthHead(repo, <<>>, issued)

check_repository_health(repo) ==
    CASE repo.fs = "denied" ->
            Raised("PermissionError", <<>>)
      [] repo.fs = "missing" ->
            Returned(<<FixableIssue(repo, "missing_path",
                           "Repository path does not exist")>>, <<>>)
      [] repo.fs = "nogit" ->
            Returned(<<FixableIssue(repo, "not_git_repo",
                           "Directory exists but is not a git repository")>>, <<>>)
      [] repo.fs = "repo" -> HealthRemotes(repo)

---------------------------------------------------------------------------
(* Inputs: what git answers *)

\* the two-character codes of git status --porcelain (without --ignored):
\* index column x worktree column, the unmerged codes, and untracked
IndexChars == {" ", "M", "T", "A", "D", "R", "C"}
WorktreeChars == {" ", "M", "T", "D"}
UnmergedCodes == {<<"D", "D">>, <<"A", "U">>, <<"U", "D">>, <<"U", "A">>,
                  <<"D", "U">>, <<"A", "A">>, <<"U", "U">>}
AllCodes ==
    (({<<x, y>> : x \in IndexChars, y \in WorktreeChars} \ {<<" ", " ">>})
        \cup UnmergedCodes) \cup {<<"?", "?">>}
SmallCodes == {<<" ", "M">>, <<"M", " ">>, <<"?", "?">>, <<"U", "U">>,
               <<"A", "A">>, <<" ", "T">>}
FileName(i) == <<"f", DigitChars[i + 1]>>

\* m entries ' M' followed by u entries '??'
MUCodes(m, u) ==
    [i \in 1..(m + u) |-> IF i <= m THEN <<" ", "M">> ELSE <<"?", "?">>]

FreeCodeLists ==
    UNION {[1..n -> SmallCodes] : n \in 0..MaxLines} \cup {<<c>> : c \in AllCodes}
MUCodeLists == {MUCodes(m, u) : m \in 0..MaxM, u \in 0..MaxU}
CodeLists == FreeCodeLists \cup MUCodeLists
FewCodeLists == {<<>>, <<<<" ", "M">>>>, <<<<"?", "?">>, <<"U", "U">>>>}

\* git status --porcelain: one line "XY path" per entry, each ended by a newline
Listing(codes) ==
    Concat([i \in 1..Len(codes) |-> codes[i] \o <<" ">> \o FileName(i) \o <<NL>>])

ExitOk(out) == Exit(0, out, "")
ExitFail(err) == Exit(1, <<>>, err)

StatusAnswers(codeLists) ==
    {ExitOk(Listing(c)) : c \in codeLists}
FetchAnswers ==
    {ExitOk(<<>>), ExitFail("could not resolve host"),
     ExitFail("fatal: unable to access"), TimedOut, Raises("OSError: fetch")}
BranchAnswers ==
    {ExitOk(<<"m", "a", "i", "n", NL>>), ExitOk(<<"H", "E", "A", "D", NL>>),
     ExitFail("fatal: not a git repository"), Raises("OSError: rev-parse")}
RevListAnswers ==
    {ExitOk(<<"0", TAB, "0", NL>>), ExitOk(<<"2", TAB, "1", NL>>),
     ExitOk(<<"0", TAB, "1", "2", NL>>), ExitOk(<<"3", TAB, "x", NL>>),
     ExitOk(<<"x", TAB, "3", NL>>), ExitOk(<<"3", NL>>),
     ExitFail("fatal: ambiguous argument"), Raises("OSError: rev-list")}
StashAnswers ==
    {ExitOk(<<>>),
     ExitOk(<<"s", "0", NL, "s", "1", NL>>),
     ExitFail("fatal"), Raises("OSError: stash")}
PullAnswers ==
    {ExitOk(<<>>), ExitFail("merge conflict"), TimedOut, Raises("OSError: pull")}
StatusFailures == {ExitFail("fatal: status"), Raises("OSError: status")}

GitEnv(f, b, r, s, st, p) ==
    [fetch |-> f, branch |-> b, revlist |-> r, status |-> s, stash |-> st,
     pull |-> p]

\* a healthy repository on branch main whose status listing is `codes`
QuietEnv(codes, r) ==
    GitEnv(ExitOk(<<>>), ExitOk(<<"m", "a", "i", "n", NL>>), r,
           ExitOk(Listing(codes)), ExitOk(<<>>), ExitOk(<<>>))

Repo(name, category, fs, git) ==
    [name |-> name, category |-> category, path |-> name, fs |-> fs, git |-> git]

NoGit == GitEnv(Unused, Unused, Unused, Unused, Unused, Unused)

\* the repositories get_repository_status is tried on
ProbeRepos ==
    {Repo(1, "work", fs, NoGit) : fs \in {"denied", "missing", "nogit"}}
    \cup {Repo(1, "work", "repo", QuietEnv(c, r)) :
            c \in CodeLists,
            r \in {ExitOk(<<"0", TAB, "0", NL>>), ExitOk(<<"2", TAB, "1", NL>>)}}
    \cup {Repo(1, "work", "repo", GitEnv(f, b, r, s, st, Unused)) :
            f \in FetchAnswers, b \in BranchAnswers, r \in RevListAnswers,
            s \in StatusAnswers(FewCodeLists) \cup StatusFailures,
            st \in StashAnswers}

\* the repositories sync_repository is tried on
SyncRepos ==
    {Repo(1, "work", fs, NoGit) : fs \in {"denied", "missing", "nogit"}}
    \cup {Repo(1, "work", "repo", GitEnv(f, Unused, Unused, s, Unused, p)) :
            f \in FetchAnswers,
            s \in StatusAnswers(CodeLists) \cup StatusFailures,
            p \in PullAnswers}

\* the repositories pull_repository is tried on
PullRepos ==
    {Repo(1, "work", fs, NoGit) : fs \in {"denied", "missing", "nogit"}}
    \cup {Repo(1, "work", "repo", GitEnv(Unused, Unused, Unused, s, Unused, p)) :
            s \in StatusAnswers(CodeLists) \cup StatusFailures,
            p \in PullAnswers}

\* the decimal digits of a natural number
RECURSIVE Decimal(_)
Decimal(n) ==
    IF n < 10 THEN <<DigitChars[n + 1]>>
    ELSE Decimal(n \div 10) \o <<DigitChars[(n % 10) + 1]>>

\* a listing of n untracked entries after one modified file
UntrackedListing(n) ==
    Concat([i \in 1..(n + 1) |->
              IF i = 1 THEN <<" ", "M", " ", "f", "0", NL>>
              ELSE <<"?", "?", " ", "u">> \o Decimal(i - 1) \o <<NL>>])

\* numbers of untracked entries around the limit of line 345
UntrackedCounts ==
    {0, 1, UntrackedLimit - 1, UntrackedLimit, UntrackedLimit + 1,
     UntrackedLimit + 10}

RemoteAnswers ==
    {ExitOk(<<"o", "r", "i", "g", "i", "n", TAB, "u", NL>>), ExitOk(<<>>),
     ExitOk(<<NL>>), ExitFail("fatal: remote"), Raises("OSError: remote")}

HeadAnswers ==
    {ExitOk(<<"m", "a", "i", "n", NL>>), ExitOk(<<"H", "E", "A", "D", NL>>),
     ExitFail("fatal: rev-parse"), Raises("OSError: rev-parse")}

\* the answers to the three calls of check_repository_health
HealthEnv(rm, b, s) ==
    [remote |-> rm] @@ GitEnv(Unused, b, Unused, s, Unused, Unused)

\* the repositories check_repository_health is tried on
HealthRepos ==
    {Repo(1, "work", fs, NoGit) : fs \in {"denied", "missing", "nogit"}}
    \cup {Repo(1, "work", "repo", HealthEnv(rm, b, s)) :
            rm \in RemoteAnswers, b \in HeadAnswers,
            s \in {ExitOk(UntrackedListing(n)) : n \in UntrackedCounts}
                  \cup StatusAnswers(FewCodeLists) \cup StatusFailures}

---------------------------------------------------------------------------
(* One call of a per-repository function *)

BulkIdle ==
    /\ pc = "idle" /\ command = "none" /\ opts = <<>> /\ cache = <<>>
    /\ repositories = <<>> /\ fut = <<>> /\ futres = <<>> /\ workq = <<>>
    /\ completed = <<>> /\ repo_statuses = <<>> /\ results = <<>>
    /\ printed = <<>> /\ processed = <<>> /\ presented = <<>>

InitUnit ==
    /\ upc = "input"
    /\ uop \in {"probe", "sync", "pull", "health"}
    /\ uflag \in BOOLEAN
    /\ urepo \in CASE uop = "probe" -> ProbeRepos
                  [] uop = "sync" -> SyncRepos
                  [] uop = "pull" -> PullRepos
                  [] uop = "health" -> HealthRepos
    /\ uop \in {"sync", "health"} => uflag = FALSE
    /\ ures = Raised("", <<>>)
    /\ uicon = "" /\ ures2 = "none"
    /\ BulkIdle
    /\ StoreIdle

CallProbe ==
    /\ upc = "input" /\ uop = "probe"
    /\ ures' = get_repository_status(urepo, uflag)
    /\ upc' = "done"
    /\ UNCHANGED <<uop, uflag, urepo, uicon, ures2, bulkVars, storeVars>>

CallSync ==
    /\ upc = "input" /\ uop = "sync"
    /\ ures' = sync_repository(urepo)
    /\ upc' = "done"
    /\ UNCHANGED <<uop, uflag, urepo, uicon, ures2, bulkVars, storeVars>>

CallPull ==
    /\ upc = "input" /\ uop = "pull"
    /\ ures' = pull_repository(urepo, uflag)
    /\ upc' = "done"
    /\ UNCHANGED <<uop, uflag, urepo, uicon, ures2, bulkVars, storeVars>>

CallHealth ==
    /\ upc = "input" /\ uop = "health"
    /\ ures' = check_repository_health(urepo)
    /\ upc' = "done"
    /\ UNCHANGED <<uop, uflag, urepo, uicon, ures2, bulkVars, storeVars>>

\* the simple list of display_status_summary shows a probe's result
CallIcon ==
    /\ upc = "done" /\ uop = "probe" /\ ~ures.raised
    /\ uicon' = get_status_icon(ures.value)
    /\ upc' = "shown"
    /\ UNCHANGED <<uop, uflag, urepo, ures, ures2, bulkVars, storeVars>>

\* what the network can answer to the fetch of a second probe; everything
\* local answers as it did, nothing having been written
SecondFetch(repo) ==
    IF repo.fs = "repo" /\ repo.git.fetch.kind \in {"exit", "timeout"}
    THEN {ExitOk(<<>>), ExitFail("could not resolve host"), TimedOut}
    ELSE {repo.git.fetch}

\* the same repository probed a second time with the same arguments
CallProbeAgain ==
    /\ upc = "done" /\ uop = "probe"
    /\ \E f \in SecondFetch(urepo) :
          ures2' = [answer |-> f,
                    result |-> get_repository_status(
                                  [urepo EXCEPT !.git.fetch = f], uflag)]
    /\ upc' = "again"
    /\ UNCHANGED <<uop, uflag, urepo, ures, uicon, bulkVars, storeVars>>

NextUnit ==
    CallProbe \/ CallSync \/ CallPull \/ CallHealth \/ CallIcon
        \/ CallProbeAgain

SpecUnit == InitUnit /\ [][NextUnit]_vars

---------------------------------------------------------------------------
(* Properties of get_repository_status *)

ProbeDone == upc = "done" /\ uop = "probe" /\ ~ures.raised
ProbeOk == ProbeDone /\ Get(ures.value, "error", None) = None

Range(f) == {f[i] : i \in DOMAIN f}
Field(key) == Get(ures.value, key, <<>>)
Count(key) == Get(ures.value, key, 0)

\* C5: every result of get_repository_status has has_changes equal to
\* (staged, modified, untracked or conflicts non-empty, or ahead > 0, or
\* behind > 0), an absent list counting as empty and an absent count as 0.
C5_HasChangesDerived ==
    ProbeDone =>
        (ures.value.has_changes <=>
            \/ Field("staged") # <<>>
            \/ Field("modified") # <<>>
            \/ Field("untracked") # <<>>
            \/ Field("conflicts") # <<>>
            \/ Count("ahead") > 0
            \/ Count("behind") > 0)

\* a result whose only change is being behind its upstream
C5_Witness ==
    /\ ProbeOk
    /\ ures.value.has_changes
    /\ ures.value.behind > 0 /\ ures.value.ahead = 0
    /\ \A k \in {"staged", "modified", "untracked", "conflicts"} :
           ures.value[k] = <<>>

\* C6: a result with error set has staged, modified, untracked and conflicts
\* empty or absent, ahead and behind 0 or absent, and has_changes false,
\* whichever step of the probe failed.
C6_ErrorExclusive ==
    (ProbeDone /\ Get(ures.value, "error", None) # None) =>
        /\ \A k \in {"staged", "modified", "untracked", "conflicts"} :
               Field(k) = <<>>
        /\ Count("ahead") = 0 /\ Count("behind") = 0
        /\ ~ures.value.has_changes

\* the stash query, the last step, raised after a divergence and a
\* non-empty listing had been read
C6_Witness ==
    /\ ProbeDone
    /\ ures.value.error = "OSError: stash"
    /\ urepo.git.status = ExitOk(Listing(<<<<" ", "M">>>>))
    /\ urepo.git.revlist = ExitOk(<<"2", TAB, "1", NL>>)
    /\ urepo.git.branch = ExitOk(<<"m", "a", "i", "n", NL>>)
    /\ ures.calls = <<"fetch", "rev-parse", "rev-list", "status", "stash">>

\* the entries of a listing as git wrote them: its non-empty lines
RECURSIVE NonEmpty(_)
NonEmpty(ss) ==
    IF ss = <<>> THEN <<>>
    ELSE IF Head(ss) = <<>> THEN NonEmpty(Tail(ss))
    ELSE <<Head(ss)>> \o NonEmpty(Tail(ss))
Entries(out) == NonEmpty(Split(out, NL))

\* the lists of the result that hold the entry of line i (paths are "f<i>";
\* an entry is recognised by the line number its recorded path ends with)
ListsHolding(i) ==
    {k \in {"staged", "modified", "untracked", "conflicts"} :
        \E j \in DOMAIN Field(k) :
            /\ Field(k)[j] # <<>>
            /\ Field(k)[j][Len(Field(k)[j])] = DigitChars[i + 1]}

StatusRead == ProbeOk /\ urepo.git.status.kind = "exit" /\ urepo.git.status.rc = 0

\* C7: every non-empty line of a porcelain listing, whatever its code, is
\* appended to exactly one of conflicts, staged, modified, untracked, and a
\* line with an unmerged code is appended to conflicts.
C7_ExactlyOneBucket ==
    StatusRead =>
        LET e == Entries(urepo.git.status.stdout)
        IN  \A i \in 1..Len(e) :
                /\ Cardinality(ListsHolding(i)) = 1
                /\ Prefix2(e[i]) \in UnmergedCodes => ListsHolding(i) = {"conflicts"}

\* C8: for m entries ' M' followed by u entries '??' and no divergence, the
\* result has modified of length m, untracked of length u, staged and
\* conflicts empty, each recorded filename equal to the listed path; for
\* m = 3, u = 2 has_changes is true.
C8_ModifiedThenUntracked ==
    \A m \in 0..MaxM, u \in 0..MaxU :
        (/\ upc = "done" /\ uop = "probe"
         /\ urepo.fs = "repo"
         /\ urepo.git = QuietEnv(MUCodes(m, u), ExitOk(<<"0", TAB, "0", NL>>)))
        =>
        /\ ProbeOk
        /\ ures.value.modified = [i \in 1..m |-> FileName(i)]
        /\ ures.value.untracked = [i \in 1..u |-> FileName(m + i)]
        /\ ures.value.staged = <<>> /\ ures.value.conflicts = <<>>
        /\ (m = 3 /\ u = 2) => ures.value.has_changes

---------------------------------------------------------------------------
(* Properties of sync_repository *)

SyncDone == upc = "done" /\ uop = "sync"
SyncSteps == <<"fetch", "status", "pull">>
Issued(c) == c \in Range(ures.calls)

\* C9: the steps of a sync run in the order fetch, status, pull; the status
\* query is issued only after the fetch exited 0, the pull only after the
\* status query exited 0 with empty output; after a fetch that exited
\* non-zero neither is issued and the outcome is success = false with
\* message 'Fetch failed: ' + stderr.
C9_FetchStatusPull ==
    SyncDone =>
        /\ ures.calls = SubSeq(SyncSteps, 1, Len(ures.calls))
        /\ Issued("status") =>
               urepo.git.fetch.kind = "exit" /\ urepo.git.fetch.rc = 0
        /\ Issued("pull") =>
               /\ urepo.git.status.kind = "exit" /\ urepo.git.status.rc = 0
               /\ urepo.git.status.stdout = <<>>
        /\ (urepo.fs = "repo" /\ urepo.git.fetch.kind = "exit"
                /\ urepo.git.fetch.rc # 0) =>
               /\ ures.calls = <<"fetch">>
               /\ ~ures.raised
               /\ ures.value = Outcome(urepo, FALSE,
                                       "Fetch failed: " \o urepo.git.fetch.stderr)

\* the fetch exited 1 with stderr "could not resolve host"
C9_Witness ==
    /\ SyncDone
    /\ urepo.git.fetch = ExitFail("could not resolve host")
    /\ ures.value.message = "Fetch failed: could not resolve host"

DirtySync ==
    /\ SyncDone /\ urepo.fs = "repo"
    /\ urepo.git.fetch.kind = "exit" /\ urepo.git.fetch.rc = 0
    /\ urepo.git.status.kind = "exit" /\ urepo.git.status.rc = 0
    /\ urepo.git.status.stdout # <<>>

\* C10: when the fetch succeeds and the status query succeeds with non-empty
\* output, the outcome is success = true with message 'Fetched (working
\* directory has changes)' and no pull is invoked.
C10_DirtyFetchedOnly ==
    DirtySync =>
        /\ ~ures.raised
        /\ ures.value = Outcome(urepo, TRUE,
                                "Fetched (working directory has changes)")
        /\ ~Issued("pull")

\* a dirty tree with three modified and two untracked entries was synced
C10_Witness ==
    /\ DirtySync
    /\ urepo.git.status.stdout = Listing(MUCodes(3, 2))
    /\ ures.value.success

---------------------------------------------------------------------------
(* The bulk commands: status.py command, git.py sync and pull *)

MaxWorkersStatus == 5
MaxWorkersSync == 3

\* print_success / print_error of one sync outcome (git.py lines 164-167)
Report(o) == Event(IF o.success THEN "success" ELSE "error", o.name, o.message)

\* the category filter shared by the three commands; no --category is ""
Filtered(repos, category) ==
    IF category = "" THEN repos
    ELSE SelectSeq(repos, LAMBDA r : r.category = category)

\* the bullet list of a dry run
DryRunList(repos) == [i \in 1..Len(repos) |-> Event("plain", repos[i].name, repos[i].category)]

\* the list handed to the pool whatever the option says
SyncRunner_AlwaysPool(parallel) == "submit"

\* git.py lines 52-55: which runner sync hands the list to
SyncRunner(parallel) == IF parallel THEN "submit" ELSE "sequential"

\* the banner each command prints before it starts work
Banner(cmd, n) ==
    CASE cmd = "status" -> "Checking status of " \o ToString(n) \o " repositories..."
      [] cmd = "sync" -> "Syncing " \o ToString(n) \o " repositories..."
      [] cmd = "pull" -> "Pulling " \o ToString(n) \o " repositories..."

\* status.py lines 21-40, git.py lines 26-49 and 64-87: the command up to
\* the point where it starts work on the repositories
Invoke ==
    /\ pc = "start"
    /\ LET filtered == Filtered(cache, opts.category)
       IN  IF cache = <<>>
           THEN /\ printed' = Append(printed, Event("warning", 0,
                       "No repositories found. Use 'shelly clone <url>' to add some!"))
                /\ repositories' = <<>>
                /\ pc' = "done"
           ELSE IF filtered = <<>>
           THEN /\ printed' = Append(printed, Event("warning", 0,
                       "No repositories found in category '" \o opts.category \o "'"))
                /\ repositories' = <<>>
                /\ pc' = "done"
           ELSE IF command \in {"sync", "pull"} /\ opts.dry_run
           THEN /\ printed' = Append(printed, Event("info", 0,
                       "Would " \o command \o " " \o ToString(Len(filtered))
                           \o " repositories:")) \o DryRunList(filtered)
                /\ repositories' = filtered
                /\ pc' = "done"
           ELSE /\ printed' =
                    Append(printed, Event("info", 0, Banner(command, Len(filtered))))
                    \o (IF command = "status" /\ opts.fetch
                        THEN <<Event("info", 0,
                                 "Fetching from remotes (this may take a moment)...")>>
                        ELSE <<>>)
                /\ repositories' = filtered
                /\ pc' = CASE command = "status" -> "submit"
                           [] command = "sync" -> SyncRunner(opts.parallel)
                           [] command = "pull" -> "sequential"
    /\ UNCHANGED <<command, opts, cache, fut, futres, workq, completed,
                   repo_statuses, results, processed, presented,
                   unitVars, storeVars>>

MaxWorkers == IF command = "status" THEN MaxWorkersStatus ELSE MaxWorkersSync

\* executor.submit of the dict comprehension (status.py 45-48, git.py 155-158):
\* the next repository's work is queued
Submit ==
    /\ pc = "submit"
    /\ fut' = Append(fut, "queued")
    /\ futres' = Append(futres, Raised("", <<>>))
    /\ workq' = Append(workq, Len(fut) + 1)
    /\ pc' = IF Len(fut) + 1 = Len(repositories) THEN "collect" ELSE "submit"
    /\ UNCHANGED <<command, opts, cache, repositories, completed, repo_statuses,
                   results, printed, processed, presented, unitVars, storeVars>>

Running == {i \in DOMAIN fut : fut[i] = "running"}

\* a pool that starts a thread for every queued item
WorkerStart_Unbounded ==
    /\ workq # <<>>
    /\ fut' = [fut EXCEPT ![Head(workq)] = "running"]
    /\ workq' = Tail(workq)
    /\ UNCHANGED <<pc, command, opts, cache, repositories, futres, completed,
                   repo_statuses, results, printed, processed, presented,
                   unitVars, storeVars>>

\* pool threads that end after their first work item
WorkerStart_NoReuse ==
    /\ workq # <<>>
    /\ Cardinality({i \in DOMAIN fut : fut[i] # "queued"}) < MaxWorkers
    /\ fut' = [fut EXCEPT ![Head(workq)] = "running"]
    /\ workq' = Tail(workq)
    /\ UNCHANGED <<pc, command, opts, cache, repositories, futres, completed,
                   repo_statuses, results, printed, processed, presented,
                   unitVars, storeVars>>

\* a pool thread takes the oldest queued work item; the pool has at most
\* max_workers threads
WorkerStart ==
    /\ workq # <<>>
    /\ Cardinality(Running) < MaxWorkers
    /\ fut' = [fut EXCEPT ![Head(workq)] = "running"]
    /\ workq' = Tail(workq)
    /\ UNCHANGED <<pc, command, opts, cache, repositories, futres, completed,
                   repo_statuses, results, printed, processed, presented,
                   unitVars, storeVars>>

\* the function a pool thread runs for one repository
UnitOfWork(repo) ==
    IF command = "status" THEN get_repository_status(repo, opts.fetch)
    ELSE sync_repository(repo)

\* workers sharing the exception slot: once a call has raised, the calls
\* that finish after it report that exception
WorkerFinish_SharedFailure(i) ==
    /\ fut[i] = "running"
    /\ fut' = [fut EXCEPT ![i] = "finished"]
    /\ futres' = [futres EXCEPT ![i] =
           IF \E j \in DOMAIN futres : fut[j] # "queued" /\ fut[j] # "running"
                                          /\ futres[j].raised
           THEN futres[CHOOSE j \in DOMAIN futres :
                           fut[j] # "queued" /\ fut[j] # "running"
                               /\ futres[j].raised]
           ELSE UnitOfWork(repositories[i])]
    /\ completed' = Append(completed, i)
    /\ processed' = Append(processed, repositories[i].name)
    /\ UNCHANGED <<pc, command, opts, cache, repositories, workq, repo_statuses,
                   results, printed, presented, unitVars, storeVars>>

\* a pool thread's call returns or raises: the future holds the result or
\* the exception
WorkerFinish(i) ==
    /\ fut[i] = "running"
    /\ fut' = [fut EXCEPT ![i] = "finished"]
    /\ futres' = [futres EXCEPT ![i] = UnitOfWork(repositories[i])]
    /\ completed' = Append(completed, i)
    /\ processed' = Append(processed, repositories[i].name)
    /\ UNCHANGED <<pc, command, opts, cache, repositories, workq, repo_statuses,
                   results, printed, presented, unitVars, storeVars>>

\* status.py lines 50-57: the body of the as_completed loop (a returned
\* dictionary is never empty, so the test of line 54 always passes)
CollectStatus(i) ==
    IF futres[i].raised
    THEN /\ printed' = Append(printed, Event("error", repositories[i].name,
                                  "Error checking {name}: " \o futres[i].exc))
         /\ UNCHANGED repo_statuses
    ELSE /\ repo_statuses' = Append(repo_statuses, futres[i].value)
         /\ UNCHANGED printed

\* git.py lines 160-169: the body of the as_completed loop
CollectSync(i) ==
    /\ printed' = Append(printed,
           IF futres[i].raised
           THEN Event("error", repositories[i].name,
                      "Exception occurred - " \o futres[i].exc)
           ELSE Report(futres[i].value))
    /\ UNCHANGED repo_statuses

\* as_completed yields the next finished future and the loop body runs; after
\* the last one the with block is left
Collect ==
    /\ pc = "collect"
    /\ completed # <<>>
    /\ LET i == Head(completed)
       IN  /\ IF command = "status" THEN CollectStatus(i) ELSE CollectSync(i)
           /\ fut' = [fut EXCEPT ![i] = "collected"]
           /\ pc' = IF \A j \in DOMAIN fut : j # i => fut[j] = "collected"
                    THEN (IF command = "status" THEN "summary" ELSE "done")
                    ELSE "collect"
    /\ completed' = Tail(completed)
    /\ UNCHANGED <<command, opts, cache, repositories, futres, workq, results,
                   processed, presented, unitVars, storeVars>>

\* the summary shown without the --dirty-only filter
Summary_ShowsAll ==
    /\ pc = "summary"
    /\ pc' = "done"
    /\ LET shown == repo_statuses
       IN  /\ repo_statuses' = shown
           /\ IF shown = <<>>
              THEN /\ printed' = Append(printed,
                          IF opts.dirty_only
                          THEN Event("success", 0, "All repositories are clean!")
                          ELSE Event("warning", 0,
                                     "No repository status information available"))
                   /\ UNCHANGED presented
              ELSE /\ presented' = shown
                   /\ printed' = printed
                          \o display_status_summary(shown, opts.detailed)
    /\ UNCHANGED <<command, opts, cache, repositories, fut, futres, workq,
                   completed, results, processed, unitVars, storeVars>>

\* status.py lines 59-71
Summary ==
    /\ pc = "summary"
    /\ pc' = "done"
    /\ LET shown == IF opts.dirty_only
                    THEN SelectSeq(repo_statuses, LAMBDA st : st.has_changes)
                    ELSE repo_statuses
       IN  /\ repo_statuses' = shown
           /\ IF shown = <<>>
              THEN /\ printed' = Append(printed,
                          IF opts.dirty_only
                          THEN Event("success", 0, "All repositories are clean!")
                          ELSE Event("warning", 0,
                                     "No repository status information available"))
                   /\ UNCHANGED presented
              ELSE /\ presented' = shown
                   /\ printed' = printed
                          \o display_status_summary(shown, opts.detailed)
    /\ UNCHANGED <<command, opts, cache, repositories, fut, futres, workq,
                   completed, results, processed, unitVars, storeVars>>

\* a sequential loop in progress: what it printed, the results it kept, the
\* repositories it called the function for, and the exception that left it
LoopStart == [printed |-> <<>>, results |-> <<>>, processed |-> <<>>,
              crashed |-> FALSE, exc |-> ""]

\* git.py lines 174-179: nothing stands between sync_repository's exception
\* and the caller
RECURSIVE SyncLoop(_, _)
SyncLoop(repos, acc) ==
    IF repos = <<>> THEN acc
    ELSE LET r == sync_repository(Head(repos))
             called == [acc EXCEPT !.processed = Append(@, Head(repos).name)]
         IN  IF r.raised THEN [called EXCEPT !.crashed = TRUE, !.exc = r.exc]
             ELSE SyncLoop(Tail(repos),
                           [called EXCEPT !.printed = Append(@, Report(r.value))])

sync_repositories_sequential(repos) == SyncLoop(repos, LoopStart)

\* git.py lines 90-93
RECURSIVE PullLoop(_, _, _)
PullLoop(repos, force, acc) ==
    IF repos = <<>> THEN acc
    ELSE LET r == pull_repository(Head(repos), force)
             called == [acc EXCEPT !.processed = Append(@, Head(repos).name)]
         IN  IF r.raised THEN [called EXCEPT !.crashed = TRUE, !.exc = r.exc]
             ELSE PullLoop(Tail(repos), force,
                           [called EXCEPT !.results = Append(@, r.value)])

\* git.py lines 95-99
PullSummary(res) ==
    LET successful == Cardinality({i \in DOMAIN res : res[i].success})
    IN  Event("success", 0,
              "Pull completed: " \o ToString(successful) \o " successful, "
                  \o ToString(Len(res) - successful) \o " failed")

\* sync with the pool not used: sync_repositories_sequential runs to its end
\* or to the exception that leaves it
SyncSequential ==
    /\ pc = "sequential" /\ command = "sync"
    /\ LET run == sync_repositories_sequential(repositories)
       IN  /\ printed' = printed \o run.printed
           /\ processed' = run.processed
           /\ pc' = IF run.crashed THEN "crashed" ELSE "done"
    /\ UNCHANGED <<command, opts, cache, repositories, fut, futres, workq,
                   completed, repo_statuses, results, presented,
                   unitVars, storeVars>>

\* pull, git.py lines 89-99
PullAll ==
    /\ pc = "sequential" /\ command = "pull"
    /\ LET run == PullLoop(repositories, opts.force, LoopStart)
       IN  /\ results' = run.results
           /\ processed' = run.processed
           /\ printed' = IF run.crashed THEN printed
                         ELSE Append(printed, PullSummary(run.results))
           /\ pc' = IF run.crashed THEN "crashed" ELSE "done"
    /\ UNCHANGED <<command, opts, cache, repositories, fut, futres, workq,
                   completed, repo_statuses, presented, unitVars, storeVars>>

---------------------------------------------------------------------------
(* Inputs of a bulk run *)

CleanEnv == QuietEnv(<<>>, ExitOk(<<"0", TAB, "0", NL>>))
DirtyEnv == QuietEnv(<<<<"?", "?">>>>, ExitOk(<<"0", TAB, "0", NL>>))

\* the kinds of repository a cached list is made of: a path that may not be
\* examined, a path that is gone, a clean repository, a dirty one
BulkRepo(i) ==
    {Repo(i, "work", "denied", NoGit), Repo(i, "work", "missing", NoGit),
     Repo(i, "work", "repo", CleanEnv), Repo(i, "misc", "repo", DirtyEnv)}

BulkCaches ==
    UNION {{c \in [1..n -> UNION {BulkRepo(i) : i \in 1..n}] :
               \A i \in 1..n : c[i] \in BulkRepo(i)} : n \in 0..MaxRepos}

Options(cmd) ==
    CASE cmd = "status" ->
            {[category |-> c, dirty_only |-> d, detailed |-> t, fetch |-> f] :
                c \in {"", "work"}, d \in BOOLEAN, t \in BOOLEAN,
                f \in BOOLEAN}
      [] cmd = "sync" ->
            {[category |-> c, dry_run |-> n, parallel |-> p] :
                c \in {"", "work"}, n \in BOOLEAN, p \in BOOLEAN}
      [] cmd = "pull" ->
            {[category |-> c, dry_run |-> n, force |-> f] :
                c \in {"", "work"}, n \in BOOLEAN, f \in BOOLEAN}

UnitIdle ==
    /\ upc = "idle" /\ uop = "none" /\ uflag = FALSE /\ urepo = <<>>
    /\ ures = Raised("", <<>>) /\ uicon = "" /\ ures2 = "none"

Init ==
    /\ command \in {"status", "sync", "pull"}
    /\ opts \in Options(command)
    /\ cache \in BulkCaches
    /\ pc = "start"
    /\ repositories = <<>> /\ fut = <<>> /\ futres = <<>> /\ workq = <<>>
    /\ completed = <<>> /\ repo_statuses = <<>> /\ results = <<>>
    /\ printed = <<>> /\ processed = <<>> /\ presented = <<>>
    /\ UnitIdle
    /\ StoreIdle

Next ==
    \/ Invoke
    \/ Submit
    \/ WorkerStart
    \/ \E i \in DOMAIN fut : WorkerFinish(i)
    \/ Collect
    \/ Summary
    \/ SyncSequential
    \/ PullAll

Spec == Init /\ [][Next]_vars

---------------------------------------------------------------------------
(* A bulk run over more repositories than the pool has workers *)

\* the length of the list
PoolRepos == 6

\* the list: clean repositories among one of each kind of trouble (the
\* second is a repository whose fetch does not answer in time)
PoolRepo(i) ==
    CASE i % 5 = 1 -> Repo(i, "work", "repo", CleanEnv)
      [] i % 5 = 2 -> Repo(i, "work", "repo",
                           GitEnv(TimedOut, ExitOk(<<"m", "a", "i", "n", NL>>),
                                  ExitOk(<<"0", TAB, "0", NL>>), ExitOk(<<>>),
                                  ExitOk(<<>>), ExitOk(<<>>)))
      [] i % 5 = 3 -> Repo(i, "misc", "denied", NoGit)
      [] i % 5 = 4 -> Repo(i, "work", "missing", NoGit)
      [] i % 5 = 0 -> Repo(i, "misc", "repo", DirtyEnv)

PoolCache == [i \in 1..PoolRepos |-> PoolRepo(i)]

PoolOptions(cmd) ==
    {o \in Options(cmd) :
        /\ o.category = ""
        /\ cmd = "status" => o.fetch /\ ~o.detailed
        /\ cmd \in {"sync", "pull"} => ~o.dry_run}

InitPool ==
    /\ command \in {"status", "sync", "pull"}
    /\ opts \in PoolOptions(command)
    /\ cache = PoolCache
    /\ pc = "start"
    /\ repositories = <<>> /\ fut = <<>> /\ futres = <<>> /\ workq = <<>>
    /\ completed = <<>> /\ repo_statuses = <<>> /\ results = <<>>
    /\ printed = <<>> /\ processed = <<>> /\ presented = <<>>
    /\ UnitIdle
    /\ StoreIdle

SpecPool == InitPool /\ [][Next]_vars

\* what the main thread and the pool threads advance
threads == <<pc, fut, workq, completed>>

\* the main thread and the pool threads keep running while they can, and
\* every git call returns or times out (fetch, pull and the sync calls carry
\* a timeout; the local calls answer at once): no unit of work stays in
\* progress for ever
SpecPoolFair ==
    /\ SpecPool
    /\ WF_threads(Invoke) /\ WF_threads(Submit) /\ WF_threads(WorkerStart)
    /\ WF_threads(Collect) /\ WF_threads(Summary)
    /\ WF_threads(SyncSequential) /\ WF_threads(PullAll)
    /\ []<>(Running = {})

---------------------------------------------------------------------------
(* The configuration store: config/manager.py, config/settings.py,        *)
(* commands/config.py and cache_repository of commands/clone.py.           *)
(*                                                                         *)
(* A Python value carries its type, a dict is a function from its keys,    *)
(* and a file holds a JSON document (or text that is not one): json.dump   *)
(* maps Python values to JSON values and json.load maps them back.         *)

MaxSets == 3       \* longest session that works on the configuration
MaxCaches == 4     \* longest session that works on the cache

PyStr(s) == [t |-> "str", s |-> s]
PyBool(b) == [t |-> "bool", b |-> b]
PyNone == [t |-> "NoneType"]
PyInt(n) == [t |-> "int", n |-> n]
PyList(items) == [t |-> "list", items |-> items]
PyDict(d) == [t |-> "dict", d |-> d]

\* dict.update
Update(a, b) ==
    [k \in DOMAIN a \cup DOMAIN b |-> IF k \in DOMAIN b THEN b[k] ELSE a[k]]

\* A JSON value is a record whose field j names its kind: "string" (field
\* s), "number" (n), "true", "false", "null", "array" (items) or "object"
\* (members, each a name and a value, in the order written).

\* the keys the program uses, in the order sort_keys=True writes them
KeyOrder ==
    <<"auto_open_editor", "base_dir", "categories", "category", "clone_at",
      "cloned_at", "confirm_before_clone", "git_clone_depth",
      "last_editor_choice", "name", "organization_method", "owner", "path",
      "platform", "preferred_editor", "recent_repos", "repositories",
      "show_git_output", "test_key", "url">>

\* json.dump(obj, f, indent=2, sort_keys=True): the document written
RECURSIVE json_dump(_)
json_dump(v) ==
    CASE v.t = "str" -> [j |-> "string", s |-> v.s]
      [] v.t = "bool" -> IF v.b THEN [j |-> "true"] ELSE [j |-> "false"]
      [] v.t = "NoneType" -> [j |-> "null"]
      [] v.t = "int" -> [j |-> "number", n |-> v.n]
      [] v.t = "list" ->
            [j |-> "array",
             items |-> [i \in DOMAIN v.items |-> json_dump(v.items[i])]]
      [] v.t = "dict" ->
            LET keys == SelectSeq(KeyOrder, LAMBDA k : k \in DOMAIN v.d)
            IN  [j |-> "object",
                 members |-> [i \in DOMAIN keys |->
                     [name |-> keys[i], value |-> json_dump(v.d[keys[i]])]]]

\* json.load(f): the Python value of a document; of two members with one
\* name the later one counts
RECURSIVE json_load(_)
json_load(doc) ==
    CASE doc.j = "string" -> PyStr(doc.s)
      [] doc.j = "true" -> PyBool(TRUE)
      [] doc.j = "false" -> PyBool(FALSE)
      [] doc.j = "null" -> PyNone
      [] doc.j = "number" -> PyInt(doc.n)
      [] doc.j = "array" ->
            PyList([i \in DOMAIN doc.items |-> json_load(doc.items[i])])
      [] doc.j = "object" ->
            LET ms == doc.members
                last(k) == CHOOSE i \in DOMAIN ms :
                               /\ ms[i].name = k
                               /\ \A n \in DOMAIN ms : ms[n].name = k => n <= i
            IN  PyDict([k \in {ms[i].name : i \in DOMAIN ms} |->
                            json_load(ms[last(k)].value)])

\* a path of the file system: nothing there, text that json.load rejects,
\* or a JSON document
NoFile == [exists |-> FALSE, valid |-> FALSE, doc |-> [j |-> "null"]]
Garbled == [exists |-> TRUE, valid |-> FALSE, doc |-> [j |-> "null"]]
Written(doc) == [exists |-> TRUE, valid |-> TRUE, doc |-> doc]

HomeDir == "/home/u"

\* settings.py lines 5-13
DEFAULT_CONFIG ==
    [base_dir |-> PyStr(HomeDir \o "/Code"),
     preferred_editor |-> PyNone,
     auto_open_editor |-> PyBool(FALSE),
     organization_method |-> PyStr("platform"),
     git_clone_depth |-> PyNone,
     confirm_before_clone |-> PyBool(TRUE),
     show_git_output |-> PyBool(FALSE)]

\* settings.py lines 16-70: the keys of SUPPORTED_EDITORS
SUPPORTED_EDITORS ==
    {"vscode", "cursor", "webstorm", "intellij", "sublime", "atom", "vim",
     "nvim", "emacs"}

\* a file whose keys override the defaults they are merged into
load_config_DefaultsWin(file) ==
    IF file.exists /\ file.valid
    THEN Update(json_load(file.doc).d, DEFAULT_CONFIG)
    ELSE DEFAULT_CONFIG

\* manager.py lines 23-36
load_config(file) ==
    IF file.exists /\ file.valid
    THEN Update(DEFAULT_CONFIG, json_load(file.doc).d)
    ELSE DEFAULT_CONFIG

\* manager.py lines 39-47
load_cache(file) ==
    IF file.exists /\ file.valid THEN json_load(file.doc).d
    ELSE [k \in {} |-> PyNone]

\* manager.py lines 50-56 and 59-66: what the file holds after the save
save(dict) == Written(json_dump(PyDict(dict)))

\* str(path.expanduser().resolve()) of a path given as an anchor ("/", "~"
\* or none) and the rest; the working directory is src under the home
Resolve(path) ==
    CASE path.anchor = "/" -> "/" \o path.rest
      [] path.anchor = "~" -> HomeDir \o "/" \o path.rest
      [] OTHER -> HomeDir \o "/src/" \o path.rest

\* str.lower
Lower(s) ==
    LET LowerCase == <<"a", "b", "c", "d", "e", "f", "g", "h", "i", "j", "k",
                       "l", "m", "n", "o", "p", "q", "r", "s", "t", "u", "v",
                       "w", "x", "y", "z">>
        UpperCase == <<"A", "B", "C", "D", "E", "F", "G", "H", "I", "J", "K",
                       "L", "M", "N", "O", "P", "Q", "R", "S", "T", "U", "V",
                       "W", "X", "Y", "Z">>
    IN  [i \in DOMAIN s |->
            IF \E n \in DOMAIN UpperCase : UpperCase[n] = s[i]
            THEN LowerCase[CHOOSE n \in DOMAIN UpperCase : UpperCase[n] = s[i]]
            ELSE s[i]]

\* commands/config.py lines 34-38: the value a word of the command line
\* stands for
CliValue(word) ==
    IF Lower(word) \in {<<"t", "r", "u", "e">>, <<"f", "a", "l", "s", "e">>}
    THEN PyBool(Lower(word) = <<"t", "r", "u", "e">>)
    ELSE IF word # <<>> /\ \A i \in DOMAIN word : IsDigit(word[i])
    THEN PyInt(DigitsVal(word))
    ELSE PyStr(word)

\* str(datetime.now()) and datetime.now().isoformat()
Stamp(sep, n) == "2026-01-01" \o sep \o "00:00:0" \o ToString(n)

\* a call of the log
Call(op, key, value, raised) ==
    [op |-> op, key |-> key, value |-> value, raised |-> raised,
     before |-> config, file_before |-> config_file]

InSession(n) == family # "none" /\ clock < n

\* ConfigManager(): manager.py lines 12-21
Construct ==
    /\ InSession(IF family = "config" THEN MaxSets ELSE MaxCaches)
    /\ config' = load_config(config_file)
    /\ mgr_cache' = load_cache(cache_file)
    /\ call_log' = Append(call_log, Call("construct", "", PyNone, FALSE))
    /\ clock' = clock + 1
    /\ UNCHANGED <<family, config_file, cache_file, unitVars, bulkVars>>

\* shelly config --set key value: commands/config.py lines 32-43
ConfigSet(key, word) ==
    /\ family = "config" /\ InSession(MaxSets)
    /\ config' = Update(config, [k \in {key} |-> CliValue(word)])
    /\ config_file' = save(config')
    /\ call_log' = Append(call_log, Call("set", key, CliValue(word), FALSE))
    /\ clock' = clock + 1
    /\ UNCHANGED <<family, mgr_cache, cache_file, unitVars, bulkVars>>

\* manager.py lines 75-77: the last line names save_config and does not
\* call it
set_base_dir(path) ==
    /\ family = "config" /\ InSession(MaxSets)
    /\ config' = Update(config, [base_dir |-> PyStr(Resolve(path))])
    /\ call_log' = Append(call_log,
           Call("set_base_dir", "base_dir", PyStr(Resolve(path)), FALSE))
    /\ clock' = clock + 1
    /\ UNCHANGED <<family, mgr_cache, config_file, cache_file, unitVars,
                   bulkVars>>

\* manager.py lines 84-88: the save is that of the cache
set_preferred_editor(editor) ==
    /\ family = "config" /\ InSession(MaxSets)
    /\ IF editor \notin SUPPORTED_EDITORS
       THEN /\ call_log' = Append(call_log,
                   Call("set_preferred_editor", "preferred_editor",
                        PyStr(editor), TRUE))
            /\ UNCHANGED <<config, cache_file>>
       ELSE /\ config' = Update(config, [preferred_editor |-> PyStr(editor)])
            /\ cache_file' = save(mgr_cache)
            /\ call_log' = Append(call_log,
                   Call("set_preferred_editor", "preferred_editor",
                        PyStr(editor), FALSE))
    /\ clock' = clock + 1
    /\ UNCHANGED <<family, mgr_cache, config_file, unitVars, bulkVars>>

\* manager.py lines 95-97
set_auto_open_editor(auto_open) ==
    /\ family = "config" /\ InSession(MaxSets)
    /\ config' = Update(config, [auto_open_editor |-> PyBool(auto_open)])
    /\ config_file' = save(config')
    /\ call_log' = Append(call_log,
           Call("set_auto_open_editor", "auto_open_editor",
                PyBool(auto_open), FALSE))
    /\ clock' = clock + 1
    /\ UNCHANGED <<family, mgr_cache, cache_file, unitVars, bulkVars>>

\* manager.py lines 103-108
set_default_organization(method) ==
    /\ family = "config" /\ InSession(MaxSets)
    /\ IF method \notin {"platform", "owner", "flat"}
       THEN /\ call_log' = Append(call_log,
                   Call("set_default_organization", "organization_method",
                        PyStr(method), TRUE))
            /\ UNCHANGED <<config, config_file>>
       ELSE /\ config' = Update(config,
                             [organization_method |-> PyStr(method)])
            /\ config_file' = save(config')
            /\ call_log' = Append(call_log,
                   Call("set_default_organization", "organization_method",
                        PyStr(method), FALSE))
    /\ clock' = clock + 1
    /\ UNCHANGED <<family, mgr_cache, cache_file, unitVars, bulkVars>>

\* cache.get(key, []) of a key that holds a list
Items(key) ==
    IF key \in DOMAIN mgr_cache THEN mgr_cache[key].items ELSE <<>>

\* the entry of the path kept and the new one put after it
cache_repository_KeepsOld(repo_info, path, category) ==
    /\ family = "repositories" /\ InSession(MaxCaches)
    /\ mgr_cache' = Update(mgr_cache,
           [repositories |-> PyList(Append(Items("repositories"),
                PyDict([name |-> PyStr(repo_info.name),
                        owner |-> PyStr(repo_info.owner),
                        platform |-> PyStr(repo_info.platform),
                        url |-> PyStr(repo_info.url),
                        path |-> PyStr(path),
                        category |-> PyStr(category),
                        cloned_at |-> PyStr(Stamp(" ", clock))])))])
    /\ cache_file' = save(mgr_cache')
    /\ call_log' = Append(call_log,
           [op |-> "cache_repository", name |-> repo_info.name,
            path |-> path, category |-> category])
    /\ clock' = clock + 1
    /\ UNCHANGED <<family, config, config_file, unitVars, bulkVars>>

\* commands/clone.py lines 174-198
cache_repository(repo_info, path, category) ==
    /\ family = "repositories" /\ InSession(MaxCaches)
    /\ LET kept == SelectSeq(Items("repositories"),
                       LAMBDA repo : Get(repo.d, "path", PyNone) # PyStr(path))
       IN  mgr_cache' = Update(mgr_cache,
               [repositories |-> PyList(Append(kept,
                    PyDict([name |-> PyStr(repo_info.name),
                            owner |-> PyStr(repo_info.owner),
                            platform |-> PyStr(repo_info.platform),
                            url |-> PyStr(repo_info.url),
                            path |-> PyStr(path),
                            category |-> PyStr(category),
                            cloned_at |-> PyStr(Stamp(" ", clock))])))])
    /\ cache_file' = save(mgr_cache')
    /\ call_log' = Append(call_log,
           [op |-> "cache_repository", name |-> repo_info.name,
            path |-> path, category |-> category])
    /\ clock' = clock + 1
    /\ UNCHANGED <<family, config, config_file, unitVars, bulkVars>>

RecentLimit == 10

\* one entry of cache['recent_repos'] (manager.py lines 115-120)
RecentEntry(full_name, platform, path, stamp) ==
    PyDict([name |-> PyStr(full_name), path |-> PyStr(path),
            platform |-> PyStr(platform), clone_at |-> PyStr(stamp)])

\* the list cut after the new entry is put at its end
cache_recent_repo_AtEnd(repo_info, path) ==
    /\ family = "recent" /\ InSession(MaxCaches)
    /\ LET kept == SelectSeq(Items("recent_repos"),
                       LAMBDA r : r.d["name"] # PyStr(repo_info.full_name))
           all == Append(kept, RecentEntry(repo_info.full_name,
                                   repo_info.platform, path, Stamp("T", clock)))
       IN  mgr_cache' = Update(mgr_cache,
               [recent_repos |-> PyList(SubSeq(all, 1,
                    IF Len(all) < RecentLimit THEN Len(all)
                    ELSE RecentLimit))])
    /\ cache_file' = save(mgr_cache')
    /\ call_log' = Append(call_log,
           [op |-> "cache_recent_repo", name |-> repo_info.full_name,
            path |-> path])
    /\ clock' = clock + 1
    /\ UNCHANGED <<family, config, config_file, unitVars, bulkVars>>

\* manager.py lines 111-131
cache_recent_repo(repo_info, path) ==
    /\ family = "recent" /\ InSession(MaxCaches)
    /\ LET kept == SelectSeq(Items("recent_repos"),
                       LAMBDA r : r.d["name"] # PyStr(repo_info.full_name))
           all == <<RecentEntry(repo_info.full_name, repo_info.platform, path,
                                Stamp("T", clock))>> \o kept
       IN  mgr_cache' = Update(mgr_cache,
               [recent_repos |-> PyList(SubSeq(all, 1,
                    IF Len(all) < RecentLimit THEN Len(all)
                    ELSE RecentLimit))])
    /\ cache_file' = save(mgr_cache')
    /\ call_log' = Append(call_log,
           [op |-> "cache_recent_repo", name |-> repo_info.full_name,
            path |-> path])
    /\ clock' = clock + 1
    /\ UNCHANGED <<family, config, config_file, unitVars, bulkVars>>

---------------------------------------------------------------------------
(* Inputs of a session of the store *)

\* parse_git_url's result for a GitHub URL
RepoInfo(owner, name) ==
    [name |-> name, owner |-> owner, platform |-> "github",
     full_name |-> owner \o "/" \o name,
     url |-> "https://github.com/" \o owner \o "/" \o name \o ".git"]

\* the n-th repository of a user
Numbered(n) == RepoInfo("u", "r" \o ToString(n))

\* cache['recent_repos'] after Numbered(1) .. Numbered(n) were cached in
\* that order by earlier sessions
RecentAfter(n) ==
    [i \in 1..(IF n < RecentLimit THEN n ELSE RecentLimit) |->
        RecentEntry(Numbered(n + 1 - i).full_name, "github",
                    "/home/u/Code/r" \o ToString(n + 1 - i),
                    Stamp("T", 0))]

\* a session finds config.json absent, unreadable, or written by a version
\* that knew one key only; the session that caches recent repositories
\* finds a cache that earlier calls have filled
InitStore ==
    /\ family \in {"config", "repositories", "recent"}
    /\ config_file \in
           IF family = "config"
           THEN {NoFile, Garbled,
                 Written([j |-> "object",
                          members |-> <<[name |-> "organization_method",
                                         value |-> [j |-> "string",
                                                    s |-> "owner"]]>>])}
           ELSE {NoFile}
    /\ config = load_config(config_file)
    /\ \E n \in IF family = "recent"
                THEN {0, RecentLimit - 1, RecentLimit} ELSE {0} :
          /\ cache_file = IF n = 0 THEN NoFile
                          ELSE save([recent_repos |-> PyList(RecentAfter(n))])
          /\ call_log = [i \in 1..n |->
                             [op |-> "cache_recent_repo",
                              name |-> Numbered(i).full_name,
                              path |-> "/home/u/Code/r" \o ToString(i)]]
    /\ mgr_cache = load_cache(cache_file)
    /\ clock = 0
    /\ BulkIdle /\ UnitIdle

NextStore ==
    \/ Construct
    \/ \E a \in {<<"test_key",
                   <<"t", "e", "s", "t", "_", "v", "a", "l", "u", "e">>>>,
                 <<"git_clone_depth", <<"3">>>>,
                 <<"confirm_before_clone", <<"F", "a", "l", "s", "e">>>>} :
          ConfigSet(a[1], a[2])
    \/ \E p \in {[anchor |-> "/", rest |-> "srv/code"],
                 [anchor |-> "~", rest |-> "work"]} : set_base_dir(p)
    \/ \E e \in {"vim", "notepad"} : set_preferred_editor(e)
    \/ \E b \in BOOLEAN : set_auto_open_editor(b)
    \/ \E m \in {"flat", "tree"} : set_default_organization(m)
    \/ \E a \in {<<RepoInfo("Domains18", "shelly"), "work">>,
                 <<RepoInfo("alice", "dotfiles"), "misc">>},
          p \in {"/home/u/Code/a", "/home/u/Code/b", "/home/u/Code/c"} :
          cache_repository(a[1], p, a[2])
    \/ \E n \in {1, 5, RecentLimit, RecentLimit + 1, RecentLimit + 2} :
          cache_recent_repo(Numbered(n), "/home/u/Code/r" \o ToString(n))

SpecStore == InitStore /\ [][NextStore]_vars

---------------------------------------------------------------------------
(* Properties of the bulk commands *)

Names(repos) == {repos[i].name : i \in DOMAIN repos}

\* the command got past its early returns and worked on the repositories
Worked ==
    /\ pc \in {"done", "crashed"}
    /\ repositories # <<>>
    /\ ~(command \in {"sync", "pull"} /\ opts.dry_run)

\* C1: a bulk status run without --dirty-only over a non-empty list ends with
\* exactly one entry of its result collection for each input record, whether
\* the record's probe returned a result, returned an error or raised.
C1_OneResultPerRepository ==
    (command = "status" /\ pc = "done" /\ repositories # <<>>
        /\ ~opts.dirty_only) =>
        /\ Len(repo_statuses) = Len(repositories)
        /\ \A i \in DOMAIN repositories :
               Cardinality({j \in DOMAIN repo_statuses :
                   repo_statuses[j].name = repositories[i].name}) = 1

\* C2: in every run mode an exception raised while one repository is
\* processed never leaves the bulk run, and every repository of the list is
\* processed.
C2_ExceptionStaysLocal ==
    /\ pc # "crashed"
    /\ (command # "none" /\ Worked) => Names(repositories) \subseteq Range(processed)

\* the outcomes (name, success, message) among printed lines, as a bag
Outcomes(lines) ==
    LET o == [i \in {j \in DOMAIN lines : lines[j].name # 0} |->
                 <<lines[i].name, lines[i].level = "success", lines[i].message>>]
    IN  [x \in Range(o) |-> Cardinality({i \in DOMAIN o : o[i] = x})]

ParallelSyncDone == command = "sync" /\ pc = "done" /\ fut # <<>>

\* C3: the outcomes reported by sync_repositories_parallel are, as a
\* multiset, the outcomes sync_repositories_sequential reports for the same
\* list and the same git responses, whatever the order of completion.
C3_ParallelEqualsSequential ==
    ParallelSyncDone =>
        Outcomes(printed) =
            Outcomes(sync_repositories_sequential(repositories).printed)

---------------------------------------------------------------------------
(* Properties of pull_repository *)

PullDone == upc = "done" /\ uop = "pull"
PullIssued == PullDone /\ "pull" \in Range(ures.calls)

\* the same repository as sync_repository meets it when its fetch succeeds
\* and its tree is clean, so that the sync reaches the same pull
SyncTwin(repo) ==
    [repo EXCEPT !.git.fetch = ExitOk(<<>>), !.git.status = ExitOk(<<>>)]

PullTimedOut == PullIssued /\ urepo.git.pull.kind = "timeout"
PullExitedNonZero ==
    PullIssued /\ urepo.git.pull.kind = "exit" /\ urepo.git.pull.rc # 0

\* C11 as stated: a timeout of the pull in the pull-only operation gives
\* success = false with message 'Operation timed out', and its pull-failure
\* and timeout messages are the strings sync_repository gives for the same
\* pull answer.
C11_SameMessagesAsSync ==
    /\ PullTimedOut =>
           ures.value = Outcome(urepo, FALSE, "Operation timed out")
    /\ (PullTimedOut \/ PullExitedNonZero) =>
           ures.value.message = sync_repository(SyncTwin(urepo)).value.message

\* C11 amended: a timeout of the pull in the pull-only operation gives
\* success = false with message 'Pull timed out' (sync_repository says
\* 'Operation timed out'); its pull-failure message is the string
\* sync_repository gives for the same pull answer, 'Pull failed: ' + stderr.
C11_PullTimeoutMessage ==
    /\ PullTimedOut =>
           /\ ures.value = Outcome(urepo, FALSE, "Pull timed out")
           /\ sync_repository(SyncTwin(urepo)).value.message = "Operation timed out"
    /\ PullExitedNonZero =>
           /\ ures.value = Outcome(urepo, FALSE,
                                   "Pull failed: " \o urepo.git.pull.stderr)
           /\ ures.value.message = sync_repository(SyncTwin(urepo)).value.message

\* the pull of a clean repository timed out, force not set
C11_Witness ==
    /\ PullTimedOut /\ ~uflag
    /\ ures.calls = <<"status", "pull">>
    /\ ~ures.value.success

DirtyPull ==
    /\ PullDone /\ urepo.fs = "repo"
    /\ urepo.git.status.kind = "exit" /\ urepo.git.status.rc = 0
    /\ urepo.git.status.stdout # <<>>

\* C12: with force = false, a repository whose status query reports a
\* non-empty listing gets success = false with message 'Working directory
\* has changes (use --force to override)' and no pull is invoked.
C12_DirtyNotPulled ==
    (DirtyPull /\ ~uflag) =>
        /\ ~ures.raised
        /\ ures.value = Outcome(urepo, FALSE,
               "Working directory has changes (use --force to override)")
        /\ ures.calls = <<"status">>

\* a tree with three modified and two untracked entries, force not set
C12_Witness ==
    /\ DirtyPull /\ ~uflag
    /\ urepo.git.status.stdout = Listing(MUCodes(3, 2))
    /\ ~ures.value.success

\* what the pull's answer alone makes of the outcome
OutcomeOfPull(repo, p) ==
    CASE p.kind = "timeout" -> Outcome(repo, FALSE, "Pull timed out")
      [] p.kind = "raise" -> Outcome(repo, FALSE, p.exc)
      [] p.kind = "exit" /\ p.rc # 0 ->
            Outcome(repo, FALSE, "Pull failed: " \o p.stderr)
      [] p.kind = "exit" /\ p.rc = 0 -> Outcome(repo, TRUE, "Pulled successfully")

\* C13: with force = true on an existing git repository no status query is
\* issued: the only subprocess invoked is the pull, whatever the state of
\* the working tree, and the outcome depends only on the pull's result.
C13_ForceSkipsCheck ==
    (PullDone /\ uflag /\ urepo.fs = "repo") =>
        /\ ures.calls = <<"pull">>
        /\ ~ures.raised
        /\ ures.value = OutcomeOfPull(urepo, urepo.git.pull)

\* a forced pull of a dirty tree succeeded
C13_Witness ==
    /\ DirtyPull /\ uflag
    /\ ures.calls = <<"pull">>
    /\ ures.value = Outcome(urepo, TRUE, "Pulled successfully")

---------------------------------------------------------------------------
(* Properties of check_repository_health *)

HealthDone == upc = "done" /\ uop = "health"
HealthChecked == HealthDone /\ urepo.fs = "repo" /\ ~ures.raised

\* the answer the repository gives to a call of the health check
HealthAnswer(call) ==
    CASE call = "remote" -> urepo.git.remote
      [] call = "rev-parse" -> urepo.git.branch
      [] call = "status" -> urepo.git.status

\* one of the calls that were made raised an exception
HealthRaised ==
    /\ HealthChecked
    /\ \E i \in 1..Len(ures.calls) : HealthAnswer(ures.calls[i]).kind = "raise"

Blank(out) == \A i \in 1..Len(out) : out[i] \in Whitespace

\* what the checks had found by the time of the exception
FoundBefore ==
    (IF /\ "remote" \in Range(ures.calls)
        /\ urepo.git.remote.kind = "exit" /\ urepo.git.remote.rc = 0
        /\ Blank(urepo.git.remote.stdout)
     THEN <<"no_remotes">> ELSE <<>>)
    \o
    (IF /\ "status" \in Range(ures.calls)
        /\ urepo.git.branch.kind = "exit" /\ urepo.git.branch.rc = 0
        /\ urepo.git.branch.stdout = <<"H", "E", "A", "D", NL>>
     THEN <<"detached_head">> ELSE <<>>)

KindsOf(issues) == [i \in 1..Len(issues) |-> issues[i].type]

\* C14 as stated: if an exception is raised at any point of the checks, the
\* returned list holds exactly one issue, of kind check_error and not
\* fixable; the issues accumulated before the exception are not in it.
C14_ErrorReplacesIssues ==
    HealthRaised =>
        /\ Len(ures.value) = 1
        /\ ures.value[1].type = "check_error"
        /\ ~ures.value[1].fixable

\* C14 amended: if an exception is raised at any point of the checks, the
\* returned list ends with exactly one issue of kind check_error, not
\* fixable; the issues accumulated before the exception stay in the result,
\* ahead of it.
C14_ErrorFollowsIssues ==
    HealthRaised =>
        /\ KindsOf(ures.value) = FoundBefore \o <<"check_error">>
        /\ ~ures.value[Len(ures.value)].fixable
        /\ \E i \in 1..Len(ures.calls) :
              /\ HealthAnswer(ures.calls[i]).kind = "raise"
              /\ ures.value[Len(ures.value)].message =
                    "Error during health check: "
                        \o HealthAnswer(ures.calls[i]).exc

\* no remotes, a detached HEAD, then the status query raised
C14_Witness ==
    /\ HealthRaised
    /\ ures.calls = <<"remote", "rev-parse", "status">>
    /\ KindsOf(ures.value) = <<"no_remotes", "detached_head", "check_error">>

\* C15: a missing path gives exactly one issue, missing_path with fixable =
\* true, and no subprocess; a path without a .git entry gives exactly one
\* issue, not_git_repo with fixable = true; in every result an issue is
\* fixable if and only if its kind is missing_path or not_git_repo.
C15_FixableKinds ==
    HealthDone =>
        /\ urepo.fs = "missing" =>
              /\ ~ures.raised /\ ures.calls = <<>>
              /\ Len(ures.value) = 1
              /\ ures.value[1].type = "missing_path" /\ ures.value[1].fixable
        /\ urepo.fs = "nogit" =>
              /\ ~ures.raised /\ ures.calls = <<>>
              /\ Len(ures.value) = 1
              /\ ures.value[1].type = "not_git_repo" /\ ures.value[1].fixable
        /\ ~ures.raised =>
              \A i \in 1..Len(ures.value) :
                  ures.value[i].fixable <=>
                      ures.value[i].type \in {"missing_path", "not_git_repo"}

\* the health check of a missing path returned
C15_Witness ==
    /\ HealthDone /\ urepo.fs = "missing"
    /\ KindsOf(ures.value) = <<"missing_path">>

\* a repository with a remote and a named current branch whose status
\* listing has n untracked entries
HealthyWith(n) ==
    /\ HealthChecked
    /\ urepo.git.remote.kind = "exit" /\ urepo.git.remote.rc = 0
    /\ ~Blank(urepo.git.remote.stdout)
    /\ urepo.git.branch = ExitOk(<<"m", "a", "i", "n", NL>>)
    /\ urepo.git.status = ExitOk(UntrackedListing(n))

\* C16: for a git repository with a remote and a named current branch the
\* health check returns exactly one issue, many_untracked, not fixable, with
\* the count n in its message, when the listing has n > 50 untracked
\* entries, and no issue when n <= 50 (50 gives none, 51 gives one).
C16_UntrackedThreshold ==
    \A n \in 0..60 :
        HealthyWith(n) =>
            IF n > 50
            THEN /\ Len(ures.value) = 1
                 /\ ures.value[1].type = "many_untracked"
                 /\ ~ures.value[1].fixable
                 /\ ures.value[1].message =
                       "Large number of untracked files (" \o ToString(n) \o ")"
            ELSE ures.value = <<>>

\* 51 untracked entries: one issue
C16_Witness ==
    /\ HealthyWith(51)
    /\ KindsOf(ures.value) = <<"many_untracked">>
    /\ ures.value[1].message = "Large number of untracked files (51)"

\* 50 untracked entries: no issue
C16_AtLimit == HealthyWith(50) /\ ures.value = <<>>

---------------------------------------------------------------------------
(* Properties of the presentation *)

Icons == {"error", "conflicts", "sync", "changes", "untracked", "clean"}

IconShown == upc = "shown" /\ uop = "probe"

ErrorSet == ures.value.error # None
Holds(key) == key \in DOMAIN ures.value /\ ures.value[key] # <<>>
Diverged ==
    \/ "ahead" \in DOMAIN ures.value /\ ures.value.ahead > 0
    \/ "behind" \in DOMAIN ures.value /\ ures.value.behind > 0

\* C18: for every probe result, error-shaped ones included, get_status_icon
\* returns exactly one icon, chosen by the first rule that matches: error
\* set; conflicts non-empty; ahead > 0 or behind > 0; staged or modified
\* non-empty; untracked non-empty; otherwise clean.
C18_IconPrecedence ==
    IconShown =>
        /\ uicon \in Icons
        /\ uicon = "error" <=> ErrorSet
        /\ uicon = "conflicts" <=> (~ErrorSet /\ Holds("conflicts"))
        /\ uicon = "sync" <=> (~ErrorSet /\ ~Holds("conflicts") /\ Diverged)
        /\ uicon = "changes" <=>
              /\ ~ErrorSet /\ ~Holds("conflicts") /\ ~Diverged
              /\ Holds("staged") \/ Holds("modified")
        /\ uicon = "untracked" <=>
              /\ ~ErrorSet /\ ~Holds("conflicts") /\ ~Diverged
              /\ ~Holds("staged") /\ ~Holds("modified")
              /\ Holds("untracked")

\* the icon of an error-shaped result, which has no ahead and no behind
C18_Witness ==
    /\ IconShown /\ uicon = "error"
    /\ "ahead" \notin DOMAIN ures.value

\* a result with conflicts that is also ahead of its upstream
C18_ConflictsAhead ==
    /\ IconShown /\ uicon = "conflicts"
    /\ ures.value.ahead > 0

\* the names of the repositories in the order of their lines on the console
RowNames ==
    LET rows == SelectSeq(printed, LAMBDA e : e.level = "row")
    IN  [i \in DOMAIN rows |-> rows[i].name]

\* the names of the input list, by category name and then by position,
\* of the repositories that were presented
InputOrder ==
    LET shown == {presented[i].name : i \in DOMAIN presented}
        Of(category) ==
            LET repos == SelectSeq(repositories,
                             LAMBDA r : r.category = category /\ r.name \in shown)
            IN  [i \in DOMAIN repos |-> repos[i].name]
    IN  Concat([k \in DOMAIN CategoryNames |-> Of(CategoryNames[k])])

StatusPresented == command = "status" /\ pc = "done" /\ presented # <<>>

\* C17: the status command presents the repositories by category name and,
\* inside one category, by their position in the input list, whatever the
\* order in which the pool workers complete.
C17_PresentedInInputOrder ==
    StatusPresented => RowNames = InputOrder

---------------------------------------------------------------------------
(* Properties of the probe's fetch and ahead/behind steps *)

ProbeReturned == uop = "probe" /\ upc \in {"done", "shown"} /\ ~ures.raised

\* the probe was asked to fetch and the fetch exited non-zero or timed out
FetchFailed ==
    /\ ProbeReturned /\ uflag /\ urepo.fs = "repo"
    /\ \/ urepo.git.fetch.kind = "timeout"
       \/ urepo.git.fetch.kind = "exit" /\ urepo.git.fetch.rc # 0

\* the answer the repository gives to a call of the probe
ProbeAnswer(call) ==
    CASE call = "fetch" -> urepo.git.fetch
      [] call = "rev-parse" -> urepo.git.branch
      [] call = "rev-list" -> urepo.git.revlist
      [] call = "status" -> urepo.git.status
      [] call = "stash" -> urepo.git.stash

\* none of the calls issued after the fetch raised an exception
LaterStepsReturn ==
    \A i \in 1..Len(ures.calls) :
        ures.calls[i] # "fetch" => ProbeAnswer(ures.calls[i]).kind # "raise"

\* C19: with fetch = true and a fetch that exits non-zero or times out, the
\* probe goes on through the branch lookup, ahead/behind, status and stash
\* steps; the result's fields are those the remaining steps compute, and
\* error is unset (unless one of those later steps itself raises).
C19_FetchFailureIgnored ==
    FetchFailed =>
        /\ ures.calls = <<"fetch">> \o get_repository_status(urepo, FALSE).calls
        /\ ures.value = get_repository_status(urepo, FALSE).value
        /\ LaterStepsReturn =>
              /\ ures.value.error = None
              /\ {"rev-parse", "status", "stash"} \subseteq Range(ures.calls)
              /\ urepo.git.branch = ExitOk(<<"m", "a", "i", "n", NL>>)
                    => ures.calls = <<"fetch", "rev-parse", "rev-list",
                                      "status", "stash">>

\* the fetch timed out and the probe reported a diverged branch
C19_Witness ==
    /\ FetchFailed /\ urepo.git.fetch.kind = "timeout"
    /\ ures.calls = <<"fetch", "rev-parse", "rev-list", "status", "stash">>
    /\ ures.value.error = None
    /\ ures.value.ahead = 2 /\ ures.value.behind = 1

\* the rev-list comparison was made and failed: non-zero exit, a wrong
\* number of fields, or a field that is not an integer
ComparisonFailed ==
    /\ ProbeReturned /\ "rev-list" \in Range(ures.calls)
    /\ urepo.git.revlist.kind = "exit"
    /\ LET fields == Split(Strip(urepo.git.revlist.stdout), TAB)
       IN  \/ urepo.git.revlist.rc # 0
           \/ Len(fields) # 2
           \/ \E i \in 1..Len(fields) : ~ParseInt(fields[i]).ok

\* C20: when the ahead/behind comparison fails in any way (the case of an
\* integer first field and a non-integer second field included), the result
\* has ahead = 0, behind = 0 and error unset (no other step raising).
C20_FailedComparisonLeavesZero ==
    (ComparisonFailed /\ LaterStepsReturn) =>
        /\ ures.value.error = None
        /\ ures.value.ahead = 0
        /\ ures.value.behind = 0

---------------------------------------------------------------------------
(* Properties of the probe's early returns and of repeated probes *)

\* C21: for a record whose path does not exist the probe returns error =
\* 'Repository path not found' with has_changes = false and invokes no
\* subprocess, also with fetch = true; for a path without a .git entry it
\* returns error = 'Not a git repository' and likewise invokes nothing.
C21_NoSubprocessWithoutRepository ==
    (uop = "probe" /\ upc # "input") =>
        /\ urepo.fs = "missing" =>
              /\ ~ures.raised /\ ures.calls = <<>>
              /\ ures.value.error = "Repository path not found"
              /\ ~ures.value.has_changes
        /\ urepo.fs = "nogit" =>
              /\ ~ures.raised /\ ures.calls = <<>>
              /\ ures.value.error = "Not a git repository"
              /\ ~ures.value.has_changes

\* a missing path probed with fetch = true
C21_Witness ==
    /\ uop = "probe" /\ upc = "done" /\ uflag /\ urepo.fs = "missing"
    /\ ures.value.error = "Repository path not found"
    /\ ures.calls = <<>>

\* a clean working tree on a branch that is level with its upstream
CleanAndLevel ==
    /\ urepo.fs = "repo"
    /\ urepo.git.status = ExitOk(<<>>)
    /\ urepo.git.branch = ExitOk(<<"m", "a", "i", "n", NL>>)
    /\ urepo.git.revlist = ExitOk(<<"0", TAB, "0", NL>>)

ProbedTwice == uop = "probe" /\ upc = "again"

\* C22: probing a repository with a clean working tree and no upstream
\* divergence twice in a row, nothing written in between, returns two
\* results that are equal field by field.
C22_RepeatedProbeEqual ==
    (ProbedTwice /\ CleanAndLevel) =>
        /\ ures2.result.raised = ures.raised
        /\ DOMAIN ures2.result.value = DOMAIN ures.value
        /\ \A key \in DOMAIN ures.value :
              ures2.result.value[key] = ures.value[key]

\* two probes with fetch, the first fetch answered and the second timed out
C22_Witness ==
    /\ ProbedTwice /\ CleanAndLevel /\ uflag
    /\ urepo.git.fetch = ExitOk(<<>>) /\ ures2.answer = TimedOut
    /\ ures.value.error = None /\ ~ures.value.has_changes
    /\ ures2.result.value = ures.value

---------------------------------------------------------------------------
(* Properties of the pool *)

\* C24: at every moment of a parallel run at most 3 units of work are in
\* progress for sync and at most 5 for status, whatever the length of the
\* list; a repository's work starts only when a worker is free, the others
\* waiting in the queue.
C24_PoolBound ==
    /\ command = "sync" => Cardinality(Running) <= 3
    /\ command = "status" => Cardinality(Running) <= 5
    /\ \A i \in DOMAIN fut :
          fut[i] = "queued" <=> i \in Range(workq)

\* a status run with five probes in progress and the sixth waiting
C24_Witness ==
    /\ command = "status" /\ Len(repositories) > 5
    /\ Cardinality(Running) = 5
    /\ workq # <<>>

\* a sync run with three syncs in progress and others waiting
C24_SyncSaturated ==
    /\ command = "sync" /\ Cardinality(Running) = 3 /\ Len(workq) >= 2

\* the as_completed loop of a parallel run has collected every future
ParallelDone ==
    \/ command = "status" /\ pc = "summary"
    \/ command = "sync" /\ pc = "done" /\ fut # <<>>

\* what the unit of work of the i-th repository gives when run on its own
Alone(i) ==
    IF command = "status"
    THEN get_repository_status(repositories[i], opts.fetch)
    ELSE sync_repository(repositories[i])

\* the console lines of a level about a repository
LinesAbout(name, levels) ==
    SelectSeq(printed, LAMBDA e : e.name = name /\ e.level \in levels)

\* C25: in a parallel run the outcome recorded for a repository depends only
\* on its own record and git responses: whatever timeout, failure or
\* exception the other units of work met and however the workers were
\* interleaved, it is the outcome of that repository's unit of work run alone.
C25_OutcomeIsOwn ==
    ParallelDone =>
        \A i \in DOMAIN repositories :
            LET name == repositories[i].name
                mine == SelectSeq(repo_statuses, LAMBDA st : st.name = name)
                said == LinesAbout(name, {"success", "error"})
            IN  IF command = "status"
                THEN IF Alone(i).raised
                     THEN /\ mine = <<>>
                          /\ said = <<Event("error", name,
                                 "Error checking {name}: " \o Alone(i).exc)>>
                     ELSE /\ mine = <<Alone(i).value>>
                          /\ said = <<>>
                ELSE said = <<IF Alone(i).raised
                              THEN Event("error", name,
                                       "Exception occurred - " \o Alone(i).exc)
                              ELSE Report(Alone(i).value)>>

\* a parallel sync in which one repository timed out, one raised, one was
\* missing, and the first still pulled
C25_Witness ==
    /\ ParallelDone /\ command = "sync"
    /\ LinesAbout(2, {"error"}) = <<Event("error", 2, "Operation timed out")>>
    /\ LinesAbout(3, {"error"}) =
           <<Event("error", 3, "Exception occurred - PermissionError")>>
    /\ LinesAbout(1, {"success"}) =
           <<Event("success", 1, "Fetched and pulled successfully")>>
    /\ processed[1] # 1

\* the run is over: nothing queued, running or waiting to be collected
Finished ==
    /\ pc \in {"done", "crashed"}
    /\ workq = <<>> /\ completed = <<>>
    /\ \A i \in DOMAIN fut : fut[i] = "collected"

\* C26: every git call returning or timing out and the workers being
\* scheduled fairly, every bulk run over a finite list eventually finishes,
\* and once finished every submitted repository's unit of work has
\* completed: none is left pending or running.
C26_RunFinishes == <>[]Finished

\* a parallel sync of a list longer than the pool is over, all collected
C26_Witness ==
    /\ Finished /\ pc = "done" /\ command = "sync"
    /\ Len(fut) = Len(repositories) /\ Len(fut) > 3
    /\ Len(processed) = Len(repositories)

DirtyOnlyDone ==
    /\ command = "status" /\ pc = "done" /\ fut # <<>>
    /\ opts.dirty_only

\* the results the as_completed loop collected: those of the calls that
\* returned
Collected == {futres[i].value : i \in {j \in DOMAIN futres : ~futres[j].raised}}

\* C27: with --dirty-only the set of results passed to the presenter is
\* exactly the set of collected results with has_changes = true; a
\* repository whose probe returned an error is never shown; when no result
\* remains the command reports that all repositories are clean.
C27_DirtyOnlyFilter ==
    DirtyOnlyDone =>
        LET dirty == {st \in Collected : st.has_changes}
        IN  IF dirty = {}
            THEN /\ presented = <<>>
                 /\ printed[Len(printed)] =
                        Event("success", 0, "All repositories are clean!")
            ELSE /\ presented # <<>>
                 /\ Range(presented) = dirty
                 /\ \A i \in DOMAIN presented : presented[i].error = None

\* a missing path and a dirty repository: only the dirty one is shown
C27_Witness ==
    /\ DirtyOnlyDone /\ presented # <<>>
    /\ Len(presented) = 1
    /\ \E st \in Collected : st.error = "Repository path not found"

\* a missing path and a clean repository: nothing is shown
C27_AllClean ==
    /\ DirtyOnlyDone /\ presented = <<>>
    /\ \E st \in Collected : st.error = "Repository path not found"

---------------------------------------------------------------------------
(* Properties of the configuration store *)

LastCall == call_log[Len(call_log)]

\* the last call set a key of the configuration and saved the configuration
SetAndSaved ==
    /\ family = "config" /\ call_log # <<>>
    /\ LastCall.op \in {"set", "set_auto_open_editor",
                        "set_default_organization"}
    /\ ~LastCall.raised

\* the names of the members of the document config.json holds
InFile ==
    IF config_file.exists /\ config_file.valid
    THEN {config_file.doc.members[i].name :
              i \in DOMAIN config_file.doc.members}
    ELSE {}

C23_PartialFile ==
    /\ family = "config" /\ call_log = <<>>
    /\ InFile = {"organization_method"}
    /\ load_config(config_file)["auto_open_editor"] = PyBool(FALSE)

\* the setters of ConfigManager
Setters ==
    {"set_base_dir", "set_preferred_editor", "set_auto_open_editor",
     "set_default_organization"}

\* C28: a setter of ConfigManager that returns has written the changed value
\* to the configuration file (a newly constructed ConfigManager returns it);
\* a setter that raises ValueError leaves the configuration in memory and
\* the file as they were.
C28_SettersPersist ==
    (family = "config" /\ call_log # <<>> /\ LastCall.op \in Setters) =>
        IF LastCall.raised
        THEN /\ config = LastCall.before
             /\ config_file = LastCall.file_before
        ELSE load_config(config_file)[LastCall.key] = LastCall.value

\* the calls of cache_repository, oldest first
RepoCalls == SelectSeq(call_log, LAMBDA c : c.op = "cache_repository")

\* the latest call of RepoCalls for a path
LatestFor(path) ==
    CHOOSE i \in DOMAIN RepoCalls :
        /\ RepoCalls[i].path = path
        /\ \A n \in DOMAIN RepoCalls : RepoCalls[n].path = path => n <= i

\* C29: after any sequence of cache_repository calls from an empty cache no
\* two entries of cache['repositories'] have the same path, the entry of the
\* most recently cached path is the last one, every entry carries the name
\* and category of the latest call for its path, and the entries stand in the
\* order of the latest calls for their paths (a call moves its path's entry
\* to the end and leaves the others in their order).
C29_OneEntryPerPath ==
    (family = "repositories" /\ RepoCalls # <<>>) =>
        LET entries == Items("repositories")
            PathOf(i) == entries[i].d["path"].s
        IN  /\ entries # <<>>
            /\ \A i, n \in DOMAIN entries : i # n => PathOf(i) # PathOf(n)
            /\ PathOf(Len(entries)) = RepoCalls[Len(RepoCalls)].path
            /\ {PathOf(i) : i \in DOMAIN entries}
                   = {RepoCalls[n].path : n \in DOMAIN RepoCalls}
            /\ \A i \in DOMAIN entries :
                  /\ entries[i].d["name"].s = RepoCalls[LatestFor(PathOf(i))].name
                  /\ entries[i].d["category"].s
                         = RepoCalls[LatestFor(PathOf(i))].category
            /\ \A i, n \in DOMAIN entries :
                  i < n => LatestFor(PathOf(i)) < LatestFor(PathOf(n))

\* three paths cached and the first one cached again under another name and
\* category
C29_Witness ==
    /\ family = "repositories" /\ Len(RepoCalls) = 4
    /\ Len(Items("repositories")) = 3
    /\ RepoCalls[1].path = RepoCalls[4].path
    /\ RepoCalls[1].name # RepoCalls[4].name
    /\ RepoCalls[1].category # RepoCalls[4].category
    /\ Items("repositories")[3].d["name"].s = RepoCalls[4].name

\* the calls of cache_recent_repo, oldest first
RecentCalls == SelectSeq(call_log, LAMBDA c : c.op = "cache_recent_repo")

\* the latest call of RecentCalls for a name
LatestOf(name) ==
    CHOOSE i \in DOMAIN RecentCalls :
        /\ RecentCalls[i].name = name
        /\ \A n \in DOMAIN RecentCalls : RecentCalls[n].name = name => n <= i

\* C30: after any sequence of cache_recent_repo calls cache['recent_repos']
\* has at most 10 entries, no two of one name, the most recently cached
\* repository at index 0, and the entries in the order of their latest
\* caching, newest first.
C30_RecentNewestFirst ==
    (family = "recent" /\ RecentCalls # <<>>) =>
        LET entries == Items("recent_repos")
            NameOf(i) == entries[i].d["name"].s
        IN  /\ entries # <<>>
            /\ Len(entries) <= 10
            /\ \A i, n \in DOMAIN entries : i # n => NameOf(i) # NameOf(n)
            /\ NameOf(1) = RecentCalls[Len(RecentCalls)].name
            /\ \A i, n \in DOMAIN entries :
                  i < n => LatestOf(NameOf(i)) > LatestOf(NameOf(n))

\* more than 10 repositories were cached, the last call for one cached
\* before: the list is full and the oldest names are gone
C30_Witness ==
    /\ family = "recent" /\ clock > 1
    /\ Cardinality({RecentCalls[i].name : i \in DOMAIN RecentCalls}) > 10
    /\ \E i \in 1..(Len(RecentCalls) - 1) :
          RecentCalls[i].name = RecentCalls[Len(RecentCalls)].name
    /\ Len(Items("recent_repos")) = 10

=============================================================================
